---- MODULE Spec2Model ----
(***************************************************************************)
(* A model of the visa-scraper control logic: the browser lifecycle        *)
(* manager (browserManager.ts), the challenge loop (captcha.ts), the rate  *)
(* limiter (rateLimiter.ts), the availability poller (scraper.ts) and the  *)
(* IP health gate (ipHealthCheck.ts), the run as a whole (index.ts), the   *)
(* solving service (captchaService.ts), the challenge detector             *)
(* (captcha.ts) and the booking flow (scraper.ts scrapeTLSContact, driven  *)
(* by the main loop of index.ts).  Each component has its own              *)
(* specification over the shared variable tuple; a component's actions     *)
(* leave the other components' variables unchanged.                        *)
(***************************************************************************)
EXTENDS Integers, Sequences, FiniteSets, TLC

(***************************************************************************)
(* Bounds of the model (not program constants).                            *)
(***************************************************************************)
MaxFaults == 1
MaxOps == 2
MaxEpisodes == 2

(***************************************************************************)
(* Optional values: <<>> is null/undefined, <<x>> is the value x.          *)
(***************************************************************************)
None == <<>>
Some(x) == <<x>>
IsSome(o) == o # <<>>
Val(o) == o[1]

RECURSIVE SetToSeq(_)
SetToSeq(S) ==
  IF S = {} THEN <<>>
  ELSE LET x == CHOOSE y \in S : TRUE IN <<x>> \o SetToSeq(S \ {x})

Min(a, b) == IF a <= b THEN a ELSE b

(***************************************************************************)
(* browserManager.ts : program constants                                   *)
(***************************************************************************)
maxSessionDuration == 45 * 60 * 1000
memoryThreshold == 1024 * 1024 * 1024
maxAge == 24 * 60 * 60 * 1000

(***************************************************************************)
(* The environment of the browser manager.                                 *)
(***************************************************************************)
UserAgents == {"UA1", "UA2"}

\* The instants at which the manager is observed (ms since the start); their
\* differences are 45 minutes exactly, 24 hours exactly, and 24 hours and 45
\* minutes.
ClockPoints == {0, maxSessionDuration, maxAge + maxSessionDuration}

\* Values the memory sampler can read (ps reports KB, converted to bytes).
MemorySamples == {memoryThreshold, memoryThreshold + 1024}

StorageAccess == [localStorage : BOOLEAN, sessionStorage : BOOLEAN]
FullAccess == [localStorage |-> TRUE, sessionStorage |-> TRUE]
NoAccess == [localStorage |-> FALSE, sessionStorage |-> FALSE]

\* A Web-Storage area is a sequence of <<key, value>> entries with distinct
\* keys, in key(i) order.  The empty string is a legal storage key.
\* The pages the site can show: the booking page, which scripts may read,
\* and an interstitial that denies script access to storage.
PageStates ==
  { [cookies |-> <<[name |-> "sid", value |-> "s2"], [name |-> "pref", value |-> "p"]>>,
     local |-> << <<"token", "t2">>, <<"", "e">> >>, sess |-> << <<"step", "3">> >>,
     access |-> FullAccess],
    [cookies |-> <<[name |-> "cf", value |-> "c1"]>>,
     local |-> << <<"token", "t1">> >>, sess |-> <<>>,
     access |-> NoAccess] }

VARIABLES
  session,        \* BrowserManager.session : None or Some(BrowserSession)
  sessionFile,    \* contents of sessionDataPath : None or Some(JSON text)
  watchdogInterval,     \* BrowserManager.watchdogInterval is set
  memoryCheckInterval,  \* BrowserManager.memoryCheckInterval is set
  page,           \* cookies and storage of the page of the current browser
  access,         \* whether the current page allows script access to storage
  proxyHost,      \* PROXY_HOST is configured
  now,            \* Date.now()
  faults,         \* number of operations in which the environment failed
  ops,            \* number of manager operations so far
  lastSave,       \* what the last saveSessionData that wrote the file captured
  bm              \* observation of the last manager operation

bmVars == <<session, sessionFile, watchdogInterval, memoryCheckInterval,
            page, access, proxyHost, now, faults, ops, lastSave, bm>>

VARIABLES
  capPc,          \* handleCaptchaLoop: "idle", "loop", "returned" or "thrown"
  captchaAttempt, \* the local counter captchaAttempt
  captchaSolved,  \* sessionInfo.captchaSolved
  capService,     \* captchaService is not null (an API key is configured)
  capKeys,        \* which of TWOCAPTCHA_API_KEY, ANTICAPTCHA_API_KEY are set
  capObs,         \* what the last loop iteration did
  episodes        \* number of handleCaptchaLoop calls so far

capVars == <<capPc, captchaAttempt, captchaSolved, capService, capKeys, capObs,
            episodes>>

VARIABLES
  rlFile,         \* contents of RATE_LIMIT_FILE : None or Some(text)
  rlNow,          \* the wall clock of the clean-run script (ms)
  rlObs           \* what the last clean run saw and did

rlVars == <<rlFile, rlNow, rlObs>>

VARIABLES
  calendar,       \* the portal's month views: slot containers and next-month control
  calCursor,      \* the month view the page shows
  monPc,          \* monitorAppointments: "running", "returned" or "threw"
  pollObs,        \* what the last monitoring cycle saw and did
  cycles          \* monitoring cycles run so far

pollVars == <<calendar, calCursor, monPc, pollObs, cycles>>

VARIABLES
  ipInput,        \* what the lookup services answered in the last IP health check
  ipResult        \* the IPHealthResult of the last check

ipVars == <<ipInput, ipResult>>

VARIABLES
  live,           \* the manager as the run's tasks see it: session, both timers
  chrome,         \* every browser launched in the run: "none", "open", "saved", "closed", "closedUnsaved"
  tasks,          \* where the main task, the watchdog callback and the signal handler await
  memTick,        \* the memory sampler's callback: "idle" or "sampling"
  run,            \* the run: loop counter, operator's answers, signal, process exit
  tickObs         \* what the last timer callback found and did

lcVars == <<live, chrome, tasks, memTick, run, tickObs>>

VARIABLES
  svcConfig,      \* CaptchaService: which clients exist, preferredService
  svcObs          \* the last solveCaptcha call: providers called, result

svcVars == <<svcConfig, svcObs>>

VARIABLES
  detInput,       \* the page detectCaptcha was called on, and the calls that rejected
  detResult       \* the CaptchaDetectionResult it returned

detVars == <<detInput, detResult>>

VARIABLES
  flow,           \* the main loop and the scrapeTLSContact call it is in
  flowLog         \* what that call has done to the page so far, in order

flowVars == <<flow, flowLog>>

vars == <<bmVars, capVars, rlVars, pollVars, ipVars, lcVars, svcVars, detVars,
          flowVars>>

\* The variables an operation of one component leaves alone: those of the
\* other components.
notBrowser == <<capVars, rlVars, pollVars, ipVars, lcVars, svcVars, detVars, flowVars>>
notCaptcha == <<bmVars, rlVars, pollVars, ipVars, lcVars, svcVars, detVars, flowVars>>
notRate == <<bmVars, capVars, pollVars, ipVars, lcVars, svcVars, detVars, flowVars>>
notPoller == <<bmVars, capVars, rlVars, ipVars, lcVars, svcVars, detVars, flowVars>>
notIP == <<bmVars, capVars, rlVars, pollVars, lcVars, svcVars, detVars, flowVars>>
notLifecycle == <<bmVars, capVars, rlVars, pollVars, ipVars, svcVars, detVars, flowVars>>
notSolver == <<bmVars, capVars, rlVars, pollVars, ipVars, lcVars, detVars, flowVars>>
notDetect == <<bmVars, capVars, rlVars, pollVars, ipVars, lcVars, svcVars, flowVars>>
notFlow == <<bmVars, capVars, rlVars, pollVars, ipVars, lcVars, svcVars, detVars>>

(***************************************************************************)
(* JSON: an object is a function from keys to values; its text is the      *)
(* sequence of its <<key, value>> members.  An array of cookie objects is  *)
(* written as a sequence of <<name, value>> members.                       *)
(***************************************************************************)
EmptyObj == [k \in {} |-> ""]
Put(obj, k, v) == [x \in (DOMAIN obj) \cup {k} |-> IF x = k THEN v ELSE obj[x]]

JSONstringify(obj) == SetToSeq({<<k, obj[k]>> : k \in DOMAIN obj})

RECURSIVE JSONparse(_)
JSONparse(text) ==
  IF text = <<>> THEN EmptyObj
  ELSE Put(JSONparse(SubSeq(text, 1, Len(text) - 1)),
           text[Len(text)][1], text[Len(text)][2])

CookiesToJson(cs) == [i \in 1..Len(cs) |-> <<cs[i].name, cs[i].value>>]
CookiesFromJson(text) == [i \in 1..Len(text) |-> [name |-> text[i][1], value |-> text[i][2]]]

\* The in-page extraction loop: for each key(i), if (key) data[key] = getItem(key).
RECURSIVE ExtractStorage(_)
ExtractStorage(area) ==
  IF area = <<>> THEN EmptyObj
  ELSE LET last == area[Len(area)]
           init == ExtractStorage(SubSeq(area, 1, Len(area) - 1))
       IN IF last[1] # "" THEN Put(init, last[1], last[2]) ELSE init

SessionDataToJson(d) ==
  [cookies |-> CookiesToJson(d.cookies),
   localStorage |-> JSONstringify(d.localStorage),
   sessionStorage |-> JSONstringify(d.sessionStorage),
   userAgent |-> d.userAgent,
   timestamp |-> d.timestamp]

SessionDataFromJson(text) ==
  [cookies |-> CookiesFromJson(text.cookies),
   localStorage |-> JSONparse(text.localStorage),
   sessionStorage |-> JSONparse(text.sessionStorage),
   userAgent |-> text.userAgent,
   timestamp |-> text.timestamp]

(***************************************************************************)
(* browserManager.ts : the manager's operations as functions of the        *)
(* manager state m = [session, sessionFile, watchdogInterval,              *)
(* memoryCheckInterval, page, access] and the time t of the call.          *)
(***************************************************************************)
Manager ==
  [session |-> session, sessionFile |-> sessionFile,
   watchdogInterval |-> watchdogInterval,
   memoryCheckInterval |-> memoryCheckInterval,
   page |-> page, access |-> access]

\* loadSessionData() without the 24-hour check.
LoadSessionDataOf_NoMaxAge(file, t) ==
  IF ~IsSome(file) THEN None ELSE Some(SessionDataFromJson(Val(file)))

\* loadSessionData(): the parsed file, or null when it is missing or too old.
LoadSessionDataOf(file, t) ==
  IF ~IsSome(file) THEN None
  ELSE LET sessionData == SessionDataFromJson(Val(file))
       IN IF t - sessionData.timestamp > maxAge THEN None ELSE Some(sessionData)

\* testStorageAccess(page): the probe result; a failing evaluate gives
\* {false, false}.
TestStorageAccessOf(acc, evaluateFails) ==
  IF evaluateFails THEN [localStorage |-> FALSE, sessionStorage |-> FALSE] ELSE acc

\* saveSessionData() giving up, without writing the file, when the probe
\* reports both storage areas inaccessible.
SaveSessionDataOf_RequireStorage(m, t, fail) ==
  IF ~IsSome(m.session) \/ fail \in {"cookies", "write"} THEN m
  ELSE IF ~(m.access.localStorage \/ m.access.sessionStorage) THEN m
  ELSE [m EXCEPT !.sessionFile =
          Some(SessionDataToJson(
            [cookies |-> m.page.cookies,
             localStorage |->
               IF fail # "evaluate" /\ m.access.localStorage
                 THEN JSONparse(JSONstringify(ExtractStorage(m.page.local)))
                 ELSE EmptyObj,
             sessionStorage |->
               IF fail # "evaluate" /\ m.access.localStorage /\ m.access.sessionStorage
                 THEN JSONparse(JSONstringify(ExtractStorage(m.page.sess)))
                 ELSE EmptyObj,
             userAgent |-> Val(m.session).sessionInfo.userAgent,
             timestamp |-> t]))]

\* saveSessionData(): fail is one of "none", "cookies" (page.cookies()
\* rejects), "evaluate" (the extraction evaluate rejects), "write"
\* (fs.writeFile rejects).
SaveSessionDataOf(m, t, fail) ==
  IF ~IsSome(m.session) THEN m
  ELSE IF fail = "cookies" THEN m
  ELSE
    LET cookies == m.page.cookies
        storageAccess == TestStorageAccessOf(m.access, FALSE)
        extracted == (storageAccess.localStorage \/ storageAccess.sessionStorage)
                     /\ fail # "evaluate"
        localStorageData ==
          IF extracted /\ m.access.localStorage
          THEN JSONparse(JSONstringify(ExtractStorage(m.page.local)))
          ELSE EmptyObj
        sessionStorageData ==
          IF extracted /\ m.access.localStorage /\ m.access.sessionStorage
          THEN JSONparse(JSONstringify(ExtractStorage(m.page.sess)))
          ELSE EmptyObj
        sessionData ==
          [cookies |-> cookies,
           localStorage |-> localStorageData,
           sessionStorage |-> sessionStorageData,
           userAgent |-> Val(m.session).sessionInfo.userAgent,
           timestamp |-> t]
    IN IF fail = "write" THEN m
       ELSE [m EXCEPT !.sessionFile = Some(SessionDataToJson(sessionData))]

\* closeSession(): the browser is closed (best effort), the session is
\* dropped and both timers are cleared.
CloseSessionOf(m) ==
  [m EXCEPT !.session = None,
            !.watchdogInterval = FALSE,
            !.memoryCheckInterval = FALSE]

\* restoreSessionData(page, sessionData): the page of the new browser.
RestoredPage(saved, acc) ==
  IF ~IsSome(saved) THEN [cookies |-> <<>>, local |-> <<>>, sess |-> <<>>]
  ELSE LET probe == TestStorageAccessOf(acc, FALSE)
           inject == probe.localStorage \/ probe.sessionStorage
       IN [cookies |-> Val(saved).cookies,
           local |-> IF inject /\ acc.localStorage
                     THEN JSONstringify(Val(saved).localStorage) ELSE <<>>,
           sess |-> IF inject /\ acc.sessionStorage
                    THEN JSONstringify(Val(saved).sessionStorage) ELSE <<>>]

\* shouldRestart() asking for both ceilings to be exceeded.
ShouldRestartOf_Both(s, t) ==
  IF ~IsSome(s) THEN TRUE
  ELSE (t - Val(s).startTime > maxSessionDuration)
       /\ (Val(s).memoryUsage > memoryThreshold)

\* shouldRestart() on a session value s (None when there is no session).
ShouldRestartOf(s, t) ==
  IF ~IsSome(s) THEN TRUE
  ELSE LET sessionAge == t - Val(s).startTime
           memoryExceeded == Val(s).memoryUsage > memoryThreshold
       IN IF sessionAge > maxSessionDuration THEN TRUE
          ELSE IF memoryExceeded THEN TRUE
          ELSE FALSE

\* The user agent of a new session: savedSession?.userAgent ||
\* getRandomUserAgent().  The mutant always draws a random one.
UserAgentOf_Random(savedSession, random) == random

UserAgentOf(savedSession, random) ==
  IF IsSome(savedSession) /\ Val(savedSession).userAgent # ""
    THEN Val(savedSession).userAgent
    ELSE random

\* The puppeteer.launch calls of launchBrowser, in order, each with whether
\* its arguments carry --proxy-server and whether it succeeded.  The mutant
\* retries whatever useProxy is.
LaunchAttemptsOf_RetryAlways(useProxy, proxyArg, in) ==
  LET first == [proxyArg |-> proxyArg, ok |-> in.first]
      retry == [proxyArg |-> FALSE, ok |-> in.second]
  IN IF in.first THEN <<first>> ELSE <<first, retry>>

LaunchAttemptsOf(useProxy, proxyArg, in) ==
  LET first == [proxyArg |-> proxyArg, ok |-> in.first]
      retry == [proxyArg |-> FALSE, ok |-> in.second]
  IN IF in.first THEN <<first>>
     ELSE IF useProxy THEN <<first, retry>>
     ELSE <<first>>

\* launchBrowser(useProxy): arg is None when the argument is undefined (the
\* parameter then takes its default, true).  in = [first, second : launch
\* attempts succeed, ua : the random user agent, access : storage access of
\* the new page].  The result carries the new manager state, whether the call
\* threw, the value of useProxy and the number of launch attempts.
LaunchBrowserOf(m, t, host, arg, in) ==
  LET useProxy == IF IsSome(arg) THEN Val(arg) ELSE TRUE
      savedSession == LoadSessionDataOf(m.sessionFile, t)
      proxyArg == useProxy /\ host
      tries == LaunchAttemptsOf(useProxy, proxyArg, in)
      launched == tries[Len(tries)].ok
      attempts == Len(tries)
      userAgent == UserAgentOf(savedSession, in.ua)
      sessionInfo == [userAgent |-> userAgent,
                      proxyUsed |-> useProxy /\ host,
                      captchaSolved |-> 0,
                      errors |-> 0]
      newSession == [sessionInfo |-> sessionInfo,
                     proxyArg |-> proxyArg /\ in.first,
                     startTime |-> t,
                     memoryUsage |-> 0,
                     restartCount |-> IF IsSome(m.session)
                                      THEN Val(m.session).restartCount ELSE 0]
  IN IF ~launched
     THEN [m |-> m, threw |-> TRUE, useProxy |-> useProxy, attempts |-> attempts,
           tries |-> tries, userAgent |-> None]
     ELSE [m |-> [m EXCEPT !.session = Some(newSession),
                           !.page = RestoredPage(savedSession, in.access),
                           !.access = in.access,
                           !.watchdogInterval = TRUE,
                           !.memoryCheckInterval = TRUE],
           threw |-> FALSE, useProxy |-> useProxy, attempts |-> attempts,
           tries |-> tries, userAgent |-> Some(userAgent)]

\* restartBrowser() closing the session before it saves.
RestartBrowserOf_CloseFirst(m, t, host, saveFail, in) ==
  LET closed == IF IsSome(m.session)
                THEN SaveSessionDataOf(CloseSessionOf(m), t, saveFail)
                ELSE m
      arg == IF IsSome(closed.session)
             THEN Some(Val(closed.session).sessionInfo.proxyUsed) ELSE None
      r == LaunchBrowserOf(closed, t, host, arg, in)
      count == (IF IsSome(r.m.session) THEN Val(r.m.session).restartCount ELSE 0) + 1
  IN IF r.threw THEN r
     ELSE [r EXCEPT !.m.session = Some([Val(r.m.session) EXCEPT !.restartCount = count])]

\* restartBrowser(): save and close the current session, launch a new one,
\* then set the new session's restartCount from this.session.
RestartBrowserOf(m, t, host, saveFail, in) ==
  LET closed == IF IsSome(m.session)
                THEN CloseSessionOf(SaveSessionDataOf(m, t, saveFail))
                ELSE m
      arg == IF IsSome(closed.session)
             THEN Some(Val(closed.session).sessionInfo.proxyUsed) ELSE None
      r == LaunchBrowserOf(closed, t, host, arg, in)
      count == (IF IsSome(r.m.session) THEN Val(r.m.session).restartCount ELSE 0) + 1
  IN IF r.threw THEN r
     ELSE [r EXCEPT !.m.session = Some([Val(r.m.session) EXCEPT !.restartCount = count])]

(***************************************************************************)
(* browserManager.ts : the actions.                                        *)
(***************************************************************************)
LaunchInputs ==
  { in \in [first : BOOLEAN, second : BOOLEAN, ua : UserAgents,
             access : {FullAccess, NoAccess}] :
      /\ in.first => in.second
      \* no browser, no user agent and no page
      /\ ~in.second => in.ua = "UA1" /\ in.access = NoAccess }

SaveFailures == {"none", "cookies", "evaluate", "write"}

\* The observation an operation leaves behind.
Obs(op) ==
  [op |-> op, threw |-> FALSE, loaded |-> None, decision |-> None,
   useProxy |-> None, replaced |-> None, saveFail |-> "none",
   closeFailed |-> FALSE, timers |-> FALSE, tries |-> <<>>, stored |-> None]

\* The fields of a replaced session that an observation keeps.
Replaced(s) ==
  IF IsSome(s)
  THEN Some([restartCount |-> Val(s).restartCount,
             proxyUsed |-> Val(s).sessionInfo.proxyUsed,
             userAgent |-> Val(s).sessionInfo.userAgent])
  ELSE None

\* One more state-changing manager operation, within the bound of the model.
Step ==
  /\ ops < MaxOps
  /\ ops' = ops + 1

\* The environment fails in this operation (a save step rejects, a launch
\* attempt fails), within the bound of the model.
Faulty(saveFail, launchOk) ==
  LET cost == (IF saveFail = "none" THEN 0 ELSE 1) + (IF launchOk THEN 0 ELSE 1)
  IN /\ faults + cost <= MaxFaults
     /\ faults' = faults + cost

SetManager(m) ==
  /\ session' = m.session
  /\ sessionFile' = m.sessionFile
  /\ watchdogInterval' = m.watchdogInterval
  /\ memoryCheckInterval' = m.memoryCheckInterval
  /\ page' = m.page
  /\ access' = m.access

\* What a save that reaches fs.writeFile captured from the page.
Captured(m, t, fail) ==
  [cookies |-> m.page.cookies,
   localStorage |-> ExtractStorage(m.page.local),
   sessionStorage |-> ExtractStorage(m.page.sess),
   userAgent |-> Val(m.session).sessionInfo.userAgent,
   time |-> t,
   storageRead |-> m.access.localStorage /\ m.access.sessionStorage
                   /\ fail # "evaluate"]

SaveGhost(m, t, fail) ==
  IF IsSome(m.session) /\ fail \notin {"cookies", "write"}
  THEN Some(Captured(m, t, fail)) ELSE lastSave

InitBrowserVars ==
  /\ session = None
  /\ sessionFile = None
  /\ watchdogInterval = FALSE
  /\ memoryCheckInterval = FALSE
  /\ page = [cookies |-> <<>>, local |-> <<>>, sess |-> <<>>]
  /\ access = NoAccess
  /\ proxyHost \in BOOLEAN
  /\ now = 0
  /\ faults = 0
  /\ ops = 0
  /\ lastSave = None
  /\ bm = Obs("new")


\* The wall clock advances.
Tick ==
  /\ \E t \in ClockPoints : t > now /\ now' = t
  /\ bm' = Obs("tick")
  /\ UNCHANGED <<session, sessionFile, watchdogInterval, memoryCheckInterval,
                 page, access, proxyHost, faults, ops, lastSave>>
  /\ UNCHANGED notBrowser

\* The site changes the cookies and storage of the live page.
PageActivity ==
  /\ IsSome(session)
  /\ \E p \in PageStates :
       /\ page' = [cookies |-> p.cookies, local |-> p.local, sess |-> p.sess]
       /\ access' = p.access
  /\ bm' = Obs("page")
  /\ UNCHANGED <<session, sessionFile, watchdogInterval, memoryCheckInterval,
                 proxyHost, now, faults, ops, lastSave>>
  /\ UNCHANGED notBrowser

LaunchBrowser ==
  /\ Step
  /\ \E useProxy \in BOOLEAN, in \in LaunchInputs :
       /\ Faulty("none", in.first)
       /\ \E r \in {LaunchBrowserOf(Manager, now, proxyHost, Some(useProxy), in)} :
          /\ SetManager(r.m)
          /\ bm' = [Obs("launch") EXCEPT !.threw = r.threw,
                                         !.useProxy = Some(r.useProxy),
                                         !.tries = r.tries,
                                         !.stored = LoadSessionDataOf(r.m.sessionFile, now)]
  /\ UNCHANGED <<proxyHost, now, lastSave>>
  /\ UNCHANGED notBrowser

\* The effect of a restartBrowser() call, observed as operation op.  The
\* result of the call is bound once and its fields assigned.
DoRestart(op, decision) ==
  \E saveFail \in SaveFailures, in \in LaunchInputs :
    /\ (IsSome(session) \/ saveFail = "none")
    /\ Faulty(IF IsSome(session) THEN saveFail ELSE "none", in.first)
    /\ \E r \in {RestartBrowserOf(Manager, now, proxyHost, saveFail, in)} :
       /\ SetManager(r.m)
       /\ lastSave' = SaveGhost(Manager, now, saveFail)
       /\ bm' = [Obs(op) EXCEPT !.threw = r.threw,
                                !.useProxy = Some(r.useProxy),
                                !.tries = r.tries,
                                !.stored = LoadSessionDataOf(r.m.sessionFile, now),
                                !.replaced = Replaced(session),
                                !.saveFail = saveFail,
                                !.decision = decision]

RestartBrowser ==
  /\ Step
  /\ DoRestart("restart", None)
  /\ UNCHANGED <<proxyHost, now>>
  /\ UNCHANGED notBrowser

SaveSessionData ==
  /\ Step
  /\ \E fail \in SaveFailures :
       /\ (IsSome(session) \/ fail = "none")
       /\ Faulty(IF IsSome(session) THEN fail ELSE "none", TRUE)
       /\ \E m \in {SaveSessionDataOf(Manager, now, fail)} : SetManager(m)
       /\ lastSave' = SaveGhost(Manager, now, fail)
       /\ bm' = [Obs("save") EXCEPT !.saveFail = fail]
  /\ UNCHANGED <<proxyHost, now>>
  /\ UNCHANGED notBrowser

LoadSessionData ==
  /\ bm' = [Obs("load") EXCEPT !.loaded = LoadSessionDataOf(sessionFile, now)]
  /\ UNCHANGED <<session, sessionFile, watchdogInterval, memoryCheckInterval,
                 page, access, proxyHost, now, faults, ops, lastSave>>
  /\ UNCHANGED notBrowser

\* What a shouldRestart() call saw and answered.
Decision(s, t) ==
  Some([live |-> IsSome(s),
        age |-> IF IsSome(s) THEN t - Val(s).startTime ELSE 0,
        memory |-> IF IsSome(s) THEN Val(s).memoryUsage ELSE 0,
        result |-> ShouldRestartOf(s, t)])

ShouldRestart ==
  /\ bm' = [Obs("shouldRestart") EXCEPT !.decision = Decision(session, now)]
  /\ UNCHANGED <<session, sessionFile, watchdogInterval, memoryCheckInterval,
                 page, access, proxyHost, now, faults, ops, lastSave>>
  /\ UNCHANGED notBrowser

\* The watchdog callback: if (shouldRestart()) await restartBrowser().
WatchdogTick ==
  /\ Step
  /\ watchdogInterval
  /\ IF ShouldRestartOf(session, now)
     THEN DoRestart("watchdog", Decision(session, now))
     ELSE /\ bm' = [Obs("watchdog") EXCEPT !.decision = Decision(session, now)]
          /\ UNCHANGED <<session, sessionFile, watchdogInterval,
                         memoryCheckInterval, page, access, faults,
                         lastSave>>
  /\ UNCHANGED <<proxyHost, now>>
  /\ UNCHANGED notBrowser

\* The memory sampler callback: if (this.session) session.memoryUsage = sample.
MemoryTick ==
  /\ Step
  /\ memoryCheckInterval
  /\ \E sample \in MemorySamples :
       session' = IF IsSome(session)
                  THEN Some([Val(session) EXCEPT !.memoryUsage = sample])
                  ELSE session
  /\ bm' = Obs("memory")
  /\ UNCHANGED <<sessionFile, watchdogInterval, memoryCheckInterval,
                 page, access, proxyHost, now, faults, lastSave>>
  /\ UNCHANGED notBrowser

CloseSession ==
  /\ Step
  /\ SetManager(CloseSessionOf(Manager))
  /\ bm' = Obs("close")
  /\ UNCHANGED <<proxyHost, now, faults, lastSave>>
  /\ UNCHANGED notBrowser

\* cleanup() with the two calls in the other order.
CleanupOf_CloseFirst(m, t, fail) ==
  IF IsSome(m.session)
  THEN SaveSessionDataOf(CloseSessionOf(m), t, fail)
  ELSE m

\* cleanup(): if (this.session) { saveSessionData(); closeSession(); }
CleanupOf(m, t, fail) ==
  IF IsSome(m.session)
  THEN CloseSessionOf(SaveSessionDataOf(m, t, fail))
  ELSE m

\* cleanup(); closeOk: browser.close() resolves (its rejection is caught in
\* closeSession).  The observation keeps whether a timer was set at the call.
Cleanup ==
  /\ Step
  /\ \E fail \in SaveFailures, closeOk \in BOOLEAN :
       /\ (IsSome(session) \/ (fail = "none" /\ closeOk))
       /\ Faulty(fail, closeOk)
       /\ \E m \in {CleanupOf(Manager, now, fail)} : SetManager(m)
       /\ lastSave' = SaveGhost(Manager, now, fail)
       /\ bm' = [Obs("cleanup") EXCEPT !.replaced = Replaced(session),
                                       !.saveFail = fail,
                                       !.closeFailed = ~closeOk,
                                       !.timers = watchdogInterval
                                                  \/ memoryCheckInterval]
  /\ UNCHANGED <<proxyHost, now>>
  /\ UNCHANGED notBrowser

NextBrowser ==
  \/ Tick
  \/ PageActivity
  \/ LaunchBrowser
  \/ RestartBrowser
  \/ SaveSessionData
  \/ LoadSessionData
  \/ ShouldRestart
  \/ WatchdogTick
  \/ MemoryTick
  \/ CloseSession
  \/ Cleanup


(***************************************************************************)
(* captcha.ts : handleCaptchaLoop.                                         *)
(***************************************************************************)
maxCaptchaAttempts == 5

\* Results of detectCaptcha(page): hasCaptcha and the type string; err says
\* that a page query inside the call rejected (the call catches it: a page
\* that cannot be read at all comes back as clear on the home URL and as
\* minimal content elsewhere).
DetectResults ==
  { [hasCaptcha |-> FALSE, type |-> "none", err |-> FALSE],
    [hasCaptcha |-> TRUE, type |-> "recaptcha (.g-recaptcha)", err |-> FALSE],
    [hasCaptcha |-> TRUE, type |-> "cloudflare-challenge", err |-> FALSE],
    [hasCaptcha |-> FALSE, type |-> "none", err |-> TRUE],
    [hasCaptcha |-> TRUE, type |-> "minimal-content", err |-> TRUE] }

\* captchaStatus.type.includes('cloudflare')
IncludesCloudflare(type) == type \in {"cloudflare-challenge"}

\* What the operator can type at the menu; "" stands for bare ENTER and any
\* other text.
Choices ==
  {"skip", "refresh", "wait", "cookies", "stealth", "human", "checkbox", "auto", ""}

\* Outcomes of attemptAutomatedSolving followed by the post-solve detection:
\* solved and cleared, solved but still detected, not solved.
AutoOutcomes == {"cleared", "still", "failed"}

\* Why an automated attempt is not solved: the solving-service request
\* failed, submitSolution returned false, or a call inside
\* attemptAutomatedSolving threw.
AutoFailures == {"request", "submit", "error"}

\* attemptAutomatedSolving without its try/catch.
AttemptAutomatedSolvingOf_NoCatch(outcome, why) ==
  [solved |-> outcome # "failed",
   threw |-> outcome = "failed" /\ why = "error"]

\* attemptAutomatedSolving(page, captchaService): every failure comes back
\* as { solved: false }.
AttemptAutomatedSolvingOf(outcome, why) ==
  [solved |-> outcome # "failed", threw |-> FALSE]

\* The inputs of one loop iteration, given whether there is a service.
IterationInputsFor(service) ==
  { in \in [detect : DetectResults,
             auto1 : AutoOutcomes,        \* automated solving before the menu
             why : AutoFailures,          \* why the automated attempts fail
             checkbox1 : BOOLEAN,         \* clickCloudflareCheckbox before the menu
             choice : Choices,
             reloadOk : BOOLEAN,          \* page.reload() resolves
             checkbox2 : BOOLEAN,         \* clickCloudflareCheckbox from the menu
             auto2 : AutoOutcomes,        \* automated solving from the menu
             manualClear : BOOLEAN] :     \* detection after manual solving is clear
      \* an input the iteration never reads has one value
      /\ (~in.detect.hasCaptcha => in.auto1 = "failed" /\ in.choice = "")
      /\ (~service => in.auto1 = "failed")
      /\ (~(/\ service /\ in.detect.hasCaptcha
             /\ \/ in.auto1 = "failed"
                \/ in.choice = "auto" /\ in.auto2 = "failed") => in.why = "request")
      /\ (~IncludesCloudflare(in.detect.type) => ~in.checkbox1)
      /\ ((in.auto1 = "cleared" \/ in.checkbox1) => in.choice = "")
      /\ (~in.detect.hasCaptcha => ~in.checkbox1 /\ ~in.manualClear)
      /\ (in.auto1 = "cleared" \/ in.checkbox1 => ~in.manualClear)
      /\ (in.choice \notin {"refresh", "cookies"} => in.reloadOk)
      /\ (in.choice # "checkbox" => ~in.checkbox2)
      /\ (~(in.choice = "auto" /\ service) => in.auto2 = "failed")
      /\ (in.choice \notin {"auto", ""} => ~in.manualClear)
      /\ (in.choice = "auto" /\ service => ~in.manualClear) }

InputsWithService == {in : in \in IterationInputsFor(TRUE)}
InputsWithoutService == {in : in \in IterationInputsFor(FALSE)}

IterationInputs(service) ==
  IF service THEN InputsWithService ELSE InputsWithoutService

NoObs ==
  [detected |-> FALSE, type |-> "none", auto |-> FALSE, checkbox |-> FALSE,
   choice |-> "", reloadThrew |-> FALSE, guidance |-> FALSE, exit |-> "none",
   balance |-> FALSE, autoCalls |-> 0, detectErr |-> FALSE, fails |-> <<>>,
   menu |-> FALSE, redetected |-> FALSE]

\* The while condition with the bound included.
LoopCondition_Inclusive(attempt) == attempt <= maxCaptchaAttempts

\* while (captchaAttempt < maxCaptchaAttempts)
LoopCondition(attempt) == attempt < maxCaptchaAttempts

\* One iteration of the while loop, entered with the counter at attempt.
\* exit is "none" when the loop goes on to its condition, "throw" when
\* page.reload() rejects, and otherwise names the break that was taken.
IterationOf(attempt, service, in) ==
  IF ~in.detect.hasCaptcha
  THEN [attempt |-> attempt, solved |-> 0,
        obs |-> [NoObs EXCEPT !.exit = "clear", !.detectErr = in.detect.err]]
  ELSE
    LET n == attempt + 1
        a1 == AttemptAutomatedSolvingOf(in.auto1, in.why)
        a2 == AttemptAutomatedSolvingOf(in.auto2, in.why)
        base == [NoObs EXCEPT !.detected = TRUE, !.type = in.detect.type,
                              !.detectErr = in.detect.err,
                              !.auto = service,
                              !.autoCalls = IF service THEN 1 ELSE 0,
                              !.redetected = service /\ a1.solved,
                              !.fails = IF service /\ ~a1.solved
                                          THEN <<in.why>> ELSE <<>>]
        result(o) == [attempt |-> n, solved |-> 1, obs |-> o]
        cloudflare == IncludesCloudflare(in.detect.type)
        \* the menu and what follows it
        menu(o) ==
          LET m == [o EXCEPT !.choice = in.choice, !.menu = TRUE]
          IN CASE in.choice = "skip" -> result([m EXCEPT !.exit = "skip"])
               [] in.choice \in {"refresh", "cookies"} ->
                    IF in.reloadOk THEN result(m)
                    ELSE result([m EXCEPT !.reloadThrew = TRUE, !.exit = "throw"])
               [] in.choice \in {"wait", "stealth", "human"} -> result(m)
               [] in.choice = "checkbox" ->
                    IF in.checkbox2
                    THEN result([m EXCEPT !.checkbox = TRUE, !.exit = "checkbox"])
                    ELSE result([m EXCEPT !.checkbox = TRUE])
               [] in.choice = "auto" /\ service ->
                    LET a == [m EXCEPT !.autoCalls = @ + 1,
                                       !.redetected = @ \/ a2.solved,
                                       !.fails = IF ~a2.solved
                                                   THEN Append(@, in.why) ELSE @]
                    IN IF a2.threw THEN result([a EXCEPT !.exit = "throw"])
                       ELSE IF a2.solved /\ in.auto2 = "cleared"
                       THEN result([a EXCEPT !.exit = "auto"])
                       ELSE result(a)
               [] OTHER ->
                    IF in.manualClear
                    THEN result([m EXCEPT !.exit = "manual", !.redetected = TRUE])
                    ELSE LET g == [m EXCEPT !.guidance = (n >= 3), !.redetected = TRUE]
                         IN IF n >= maxCaptchaAttempts
                            THEN result([g EXCEPT !.exit = "max"])
                            ELSE result(g)
    IN IF service /\ a1.threw
       THEN result([base EXCEPT !.exit = "throw"])
       ELSE IF service /\ a1.solved /\ in.auto1 = "cleared"
       THEN result([base EXCEPT !.exit = "auto"])
       ELSE IF cloudflare /\ in.checkbox1
       THEN result([base EXCEPT !.checkbox = TRUE, !.exit = "checkbox"])
       ELSE menu([base EXCEPT !.checkbox = cloudflare])

\* What one iteration can come to, over every input, for each value of the
\* counter and each setting of the service.
IterationResults ==
  [attempt \in 0..maxCaptchaAttempts, service \in BOOLEAN |->
     {r : r \in {IterationOf(attempt, service, in) : in \in IterationInputs(service)}}]

KeySets == [two : BOOLEAN, anti : BOOLEAN]

\* The service object made whatever the keys are.
ServiceCreated_Always(keys) == TRUE

\* if (TWOCAPTCHA_API_KEY || ANTICAPTCHA_API_KEY) captchaService = new ...
ServiceCreated(keys) == keys.two \/ keys.anti

\* A call of handleCaptchaLoop: the counter starts at 0; the service is
\* created (and its balance queried) when an API key is configured.
StartCaptchaLoop ==
  /\ capPc # "loop"
  /\ episodes < MaxEpisodes
  /\ episodes' = episodes + 1
  /\ captchaAttempt' = 0
  /\ capService' = ServiceCreated(capKeys)
  /\ capObs' = [NoObs EXCEPT !.balance = ServiceCreated(capKeys)]
  /\ capPc' = IF LoopCondition(0) THEN "loop" ELSE "returned"
  /\ UNCHANGED <<captchaSolved, capKeys>>
  /\ UNCHANGED notCaptcha

\* One pass through the loop body, and the test of the loop condition when
\* the body ends without break.
CaptchaIteration ==
  /\ capPc = "loop"
  /\ \E r \in IterationResults[captchaAttempt, capService] :
          /\ captchaAttempt' = r.attempt
          /\ captchaSolved' = captchaSolved + r.solved
          /\ IF r.obs.exit = "throw"
             THEN capPc' = "thrown" /\ capObs' = r.obs
             ELSE IF r.obs.exit # "none"
             THEN capPc' = "returned" /\ capObs' = r.obs
             ELSE IF LoopCondition(r.attempt)
             THEN capPc' = "loop" /\ capObs' = r.obs
             ELSE capPc' = "returned" /\ capObs' = [r.obs EXCEPT !.exit = "while"]
  /\ UNCHANGED <<capService, capKeys, episodes>>
  /\ UNCHANGED notCaptcha

InitCaptcha ==
  /\ capPc = "idle"
  /\ captchaAttempt = 0
  /\ captchaSolved = 0
  /\ capService = FALSE
  /\ capKeys \in KeySets
  /\ capObs = NoObs
  /\ episodes = 0

CaptchaRest ==
  /\ capPc = "idle"
  /\ captchaAttempt = 0
  /\ captchaSolved = 0
  /\ capService = FALSE
  /\ capKeys = [two |-> FALSE, anti |-> FALSE]
  /\ capObs = NoObs
  /\ episodes = 0

NextCaptcha ==
  \/ StartCaptchaLoop
  \/ CaptchaIteration

(***************************************************************************)
(* rateLimiter.ts and the clean-run entry script.                          *)
(***************************************************************************)
RATE_LIMIT_MINUTES == 15

\* Math.ceil(a / b) for an integer a and a positive integer b.
CeilDiv(a, b) == -((-a) \div b)

\* Date.prototype.toISOString: the text names the day, hour, minute, second
\* and millisecond of the instant.
ToISOString(ms) ==
  [valid |-> TRUE,
   day |-> ms \div 86400000,
   hour |-> (ms \div 3600000) % 24,
   minute |-> (ms \div 60000) % 60,
   second |-> (ms \div 1000) % 60,
   milli |-> ms % 1000]

\* A file that does not hold a date.
InvalidText ==
  [valid |-> FALSE, day |-> 0, hour |-> 0, minute |-> 0, second |-> 0, milli |-> 0]

\* new Date(text).getTime(); None stands for NaN.
ParseDate(text) ==
  IF ~text.valid THEN None
  ELSE Some((((text.day * 24 + text.hour) * 60 + text.minute) * 60 + text.second) * 1000
            + text.milli)

\* checkRateLimit() with the rejection test reading the cooldown as minutes
\* still to wait being positive after rounding down.
CheckRateLimitOf_Floor(file, t, readOk) ==
  IF ~IsSome(file) \/ ~readOk THEN
    [canRun |-> TRUE, lastRunTime |-> None, nextAllowedTime |-> None,
     minutesRemaining |-> None]
  ELSE
    LET lastRunTime == ParseDate(Val(file))
    IN IF ~IsSome(lastRunTime) THEN
         [canRun |-> TRUE, lastRunTime |-> None, nextAllowedTime |-> None,
          minutesRemaining |-> None]
       ELSE
         LET timeDifferenceMs == t - Val(lastRunTime)
         IN IF timeDifferenceMs \div (1000 * 60) >= RATE_LIMIT_MINUTES - 1 THEN
              [canRun |-> TRUE, lastRunTime |-> lastRunTime,
               nextAllowedTime |-> None, minutesRemaining |-> None]
            ELSE
              [canRun |-> FALSE, lastRunTime |-> lastRunTime,
               nextAllowedTime |->
                 Some(Val(lastRunTime) + RATE_LIMIT_MINUTES * 60 * 1000),
               minutesRemaining |->
                 Some(CeilDiv(RATE_LIMIT_MINUTES * 60 * 1000 - timeDifferenceMs,
                              1000 * 60))]

\* checkRateLimit() turning the run away when the file cannot be read.
CheckRateLimitOf_FailClosed(file, t, readOk) ==
  IF ~IsSome(file) THEN
    [canRun |-> TRUE, lastRunTime |-> None, nextAllowedTime |-> None,
     minutesRemaining |-> None]
  ELSE IF ~readOk THEN
    [canRun |-> FALSE, lastRunTime |-> None, nextAllowedTime |-> None,
     minutesRemaining |-> None]
  ELSE
    LET lastRunTime == ParseDate(Val(file))
    IN IF ~IsSome(lastRunTime) THEN
         [canRun |-> TRUE, lastRunTime |-> None, nextAllowedTime |-> None,
          minutesRemaining |-> None]
       ELSE
         LET timeDifferenceMs == t - Val(lastRunTime)
         IN IF timeDifferenceMs >= RATE_LIMIT_MINUTES * 1000 * 60 THEN
              [canRun |-> TRUE, lastRunTime |-> lastRunTime,
               nextAllowedTime |-> None, minutesRemaining |-> None]
            ELSE
              [canRun |-> FALSE, lastRunTime |-> lastRunTime,
               nextAllowedTime |->
                 Some(Val(lastRunTime) + RATE_LIMIT_MINUTES * 60 * 1000),
               minutesRemaining |->
                 Some(CeilDiv(RATE_LIMIT_MINUTES * 60 * 1000 - timeDifferenceMs,
                              1000 * 60))]

\* checkRateLimit() at time t.  timeDifferenceMinutes >= RATE_LIMIT_MINUTES
\* and Math.ceil(RATE_LIMIT_MINUTES - timeDifferenceMinutes) are computed on
\* milliseconds.  readOk: fs.readFileSync returns; its exception is caught
\* and the run allowed.
CheckRateLimitOf(file, t, readOk) ==
  IF ~IsSome(file) THEN
    [canRun |-> TRUE, lastRunTime |-> None, nextAllowedTime |-> None,
     minutesRemaining |-> None]
  ELSE IF ~readOk THEN
    [canRun |-> TRUE, lastRunTime |-> None, nextAllowedTime |-> None,
     minutesRemaining |-> None]
  ELSE
    LET lastRunTime == ParseDate(Val(file))
    IN IF ~IsSome(lastRunTime) THEN
         [canRun |-> TRUE, lastRunTime |-> None, nextAllowedTime |-> None,
          minutesRemaining |-> None]
       ELSE
         LET timeDifferenceMs == t - Val(lastRunTime)
         IN IF timeDifferenceMs >= RATE_LIMIT_MINUTES * 1000 * 60 THEN
              [canRun |-> TRUE, lastRunTime |-> lastRunTime,
               nextAllowedTime |-> None, minutesRemaining |-> None]
            ELSE
              [canRun |-> FALSE, lastRunTime |-> lastRunTime,
               nextAllowedTime |->
                 Some(Val(lastRunTime) + RATE_LIMIT_MINUTES * 60 * 1000),
               minutesRemaining |->
                 Some(CeilDiv(RATE_LIMIT_MINUTES * 60 * 1000 - timeDifferenceMs,
                              1000 * 60))]

\* updateRateLimit() leaving the file alone.
UpdateRateLimitOf_Never(file, t, writeOk) == file

\* updateRateLimit() at time t: the write is best effort.
UpdateRateLimitOf(file, t, writeOk) ==
  IF writeOk THEN Some(ToISOString(t)) ELSE file

\* The instants at which the script is started (ms): a few milliseconds, a
\* minute and the cooldown apart.
RateClockPoints ==
  {0, 1, 60000, 60001, 840000, 899999, 900000, 900001, 1800000, 1800001}

\* What a clean run leaves to look at.  accepted is the start time of the
\* latest run that passed the gate, previous the one before it, allWrote
\* whether every accepted run so far wrote its timestamp, found the file as
\* the run met it, readFailed and allRead whether this run and every run so
\* far could read it, and exit how the
\* script went on: "rate limit" and "ip health" are its two process.exit(1),
\* "launch" is the browser launch.
NoRun ==
  [ran |-> FALSE, at |-> 0, before |-> None, wrote |-> FALSE,
   result |-> [canRun |-> TRUE, lastRunTime |-> None, nextAllowedTime |-> None,
               minutesRemaining |-> None],
   accepted |-> None, previous |-> None, allWrote |-> TRUE, exit |-> "none",
   found |-> None, readFailed |-> FALSE, allRead |-> TRUE]

InitRate ==
  /\ rlFile \in {None, Some(InvalidText), Some(ToISOString(0))}
  /\ rlNow = 0
  /\ rlObs = NoRun

RateRest ==
  /\ rlFile = None
  /\ rlNow = 0
  /\ rlObs = NoRun

RateTick ==
  /\ \E t \in RateClockPoints : t > rlNow /\ rlNow' = t
  /\ UNCHANGED <<rlFile, rlObs>>
  /\ UNCHANGED notRate

\* The clean-run entry script up to the browser launch: checkRateLimit, exit
\* when the run is not allowed, otherwise updateRateLimit, then the IP
\* health check and the operator's decision (proceed), exit when it is no.
CleanRun ==
  /\ \E writeOk \in BOOLEAN, proceed \in BOOLEAN, readOk \in BOOLEAN :
       LET result == CheckRateLimitOf(rlFile, rlNow, readOk)
       IN /\ (~result.canRun => writeOk /\ proceed)
          /\ (~IsSome(rlFile) => readOk)
          /\ rlFile' = IF result.canRun
                       THEN UpdateRateLimitOf(rlFile, rlNow, writeOk)
                       ELSE rlFile
          /\ rlObs' = [ran |-> TRUE, at |-> rlNow,
                       before |-> IF IsSome(rlFile) /\ readOk
                                  THEN ParseDate(Val(rlFile))
                                  ELSE None,
                       found |-> rlFile,
                       readFailed |-> ~readOk,
                       allRead |-> rlObs.allRead /\ readOk,
                       wrote |-> result.canRun /\ writeOk,
                       result |-> result,
                       accepted |-> IF result.canRun THEN Some(rlNow)
                                    ELSE rlObs.accepted,
                       previous |-> IF result.canRun THEN rlObs.accepted
                                    ELSE rlObs.previous,
                       allWrote |-> rlObs.allWrote /\ (result.canRun => writeOk),
                       exit |-> IF ~result.canRun THEN "rate limit"
                                ELSE IF ~proceed THEN "ip health"
                                ELSE "launch"]
  /\ UNCHANGED rlNow
  /\ UNCHANGED notRate

NextRate ==
  \/ RateTick
  \/ CleanRun

(***************************************************************************)
(* scraper.ts: the availability poller.                                    *)
(***************************************************************************)
MaxMonths == 4
MaxCycles == 2

Whitespace == {" ", "\n"}

\* String.prototype.trim on a text given as its characters.
RECURSIVE Trim(_)
Trim(str) ==
  IF str = <<>> THEN <<>>
  ELSE IF Head(str) \in Whitespace THEN Trim(Tail(str))
  ELSE IF str[Len(str)] \in Whitespace THEN Trim(SubSeq(str, 1, Len(str) - 1))
  ELSE str

\* <slot> elements as the page holds them.
EmptySlot == [innerHTML |-> <<>>, children |-> 0]
BlankSlot == [innerHTML |-> <<" ", "\n">>, children |-> 0]
TextSlot == [innerHTML |-> <<" ", "0", "9", ":", "3", "0">>, children |-> 0]
FilledSlot == [innerHTML |-> <<"\n", "<button>", "</button>", " ">>, children |-> 1]

\* The <slot> elements of one month view.
MonthSlots ==
  {<<>>, <<EmptySlot, BlankSlot>>, <<BlankSlot, TextSlot>>, <<EmptySlot, FilledSlot>>}

\* The next-month control of a month view: the available button, the
\* labeled unavailable marker, or neither.
Calendars ==
  UNION { { cal \in [1..n -> [slots : MonthSlots,
                              next : {"available", "unavailable", "none"}]] :
              \A i \in 1..n :
                /\ (i < n => cal[i].next = "available")
                /\ (i = n => cal[i].next # "available") } : n \in 1..MaxMonths }

\* Error messages, as their words.
ProtocolTargetClosed ==
  <<"Protocol", "error", "(", "Page.reload", ")", ":", "Target", "closed", ".">>
ProtocolSessionClosed ==
  <<"Protocol", "error", "(", "Runtime.callFunctionOn", ")", ":", "Session",
    "closed", ".">>
TargetClosed == <<"Target", "closed">>
ContextDestroyed ==
  <<"Execution", "context", "was", "destroyed", ",", "most", "likely", "because",
    "of", "a", "navigation", ".">>
NavigationTimeout == <<"Navigation", "timeout", "of", "30000", "ms", "exceeded">>
NodeDetached == <<"Node", "is", "detached", "from", "document">>
PageInvalidated == <<"Browser", "session", "restarted", "-", "page", "invalidated">>

ErrorMessages ==
  {ProtocolTargetClosed, ProtocolSessionClosed, TargetClosed, ContextDestroyed,
   NavigationTimeout, NodeDetached}

\* String.prototype.includes.
Includes(str, part) ==
  \E i \in 1..(Len(str) - Len(part) + 1) : SubSeq(str, i, i + Len(part) - 1) = part

\* checkAppointmentAvailability on a month view; threw: a page call inside
\* its try block failed.
CheckAppointmentAvailabilityOf(slots, threw) ==
  IF threw THEN [returned |-> FALSE, log |-> "error"]
  ELSE
    LET hasAvailableSlots ==
          \E i \in 1..Len(slots) :
            \/ Len(Trim(slots[i].innerHTML)) > 0
            \/ slots[i].children > 0
    IN IF hasAvailableSlots THEN [returned |-> TRUE, log |-> "available"]
       ELSE IF Len(slots) > 0 THEN [returned |-> FALSE, log |-> "empty"]
       ELSE [returned |-> FALSE, log |-> "no slot elements"]

\* navigateToNextMonth on a month view.  markerThrew: the lookup of the
\* unavailable marker failed (caught); raised: the message of a failing page
\* call outside the try blocks, if any.
NavigateToNextMonthOf(next, markerThrew, raised) ==
  IF next = "unavailable" /\ ~markerThrew THEN
    [navigated |-> FALSE, threw |-> None, clicked |-> FALSE, log |-> "unavailable"]
  ELSE IF next # "available" THEN
    IF IsSome(raised)
    THEN [navigated |-> FALSE, threw |-> raised, clicked |-> FALSE, log |-> "threw"]
    ELSE [navigated |-> FALSE, threw |-> None, clicked |-> FALSE,
          log |-> IF next = "unavailable" THEN "end of months" ELSE "unable"]
  ELSE
    IF IsSome(raised)
    THEN [navigated |-> FALSE, threw |-> raised, clicked |-> TRUE, log |-> "threw"]
    ELSE [navigated |-> TRUE, threw |-> None, clicked |-> TRUE, log |-> "navigated"]

maxMonthsToCheck == 3

\* The test before the advance, letting the last month of the window pass.
CheckedAll_Late(checked) == checked > maxMonthsToCheck

\* if (monthsChecked >= maxMonthsToCheck) break
CheckedAll(checked) == checked >= maxMonthsToCheck

\* What goes wrong in one monitoring cycle: nothing, the page probe, the
\* reload at the start of the pass, the slot lookup of the at-th month, the
\* marker lookup or an uncaught page call of the at-th advance.
NoMsg == <<>>
CycleFaults ==
  {[kind |-> "none", at |-> 0, msg |-> NoMsg], [kind |-> "probe", at |-> 0, msg |-> NoMsg]}
  \cup [kind : {"reload"}, at : {0}, msg : ErrorMessages]
  \cup [kind : {"check", "marker"}, at : 1..maxMonthsToCheck, msg : {NoMsg}]
  \cup [kind : {"nav"}, at : 1..maxMonthsToCheck, msg : ErrorMessages]

\* The while loop of checkAllMonthsForAppointments from a given iteration on.
RECURSIVE PassFrom(_, _, _, _, _, _)
PassFrom(cal, cursor, monthsChecked, attempts, f, inspections) ==
  IF ~(monthsChecked < maxMonthsToCheck) THEN
    [result |-> Some(FALSE), threw |-> None, exit |-> "completed",
     monthsChecked |-> monthsChecked, attempts |-> attempts,
     advances |-> monthsChecked - 1, cursor |-> cursor, inspections |-> inspections]
  ELSE
    LET checked == monthsChecked + 1
        r == CheckAppointmentAvailabilityOf(cal[cursor].slots,
                                            f.kind = "check" /\ f.at = checked)
        seen == Append(inspections,
                       [slots |-> cal[cursor].slots,
                        threw |-> f.kind = "check" /\ f.at = checked,
                        returned |-> r.returned])
        nav == NavigateToNextMonthOf(cal[cursor].next,
                                     f.kind = "marker" /\ f.at = checked,
                                     IF f.kind = "nav" /\ f.at = checked
                                     THEN Some(f.msg) ELSE None)
        out(result, threw, exit, att, adv) ==
          [result |-> result, threw |-> threw, exit |-> exit,
           monthsChecked |-> checked, attempts |-> att, advances |-> adv,
           cursor |-> cursor, inspections |-> seen]
    IN IF r.returned THEN out(Some(TRUE), None, "found", attempts, checked - 1)
       ELSE IF CheckedAll(checked)
       THEN out(Some(FALSE), None, "checked all", attempts, checked - 1)
       ELSE IF IsSome(nav.threw)
       THEN out(None, nav.threw, "threw", attempts + 1, checked - 1)
       ELSE IF ~nav.navigated
       THEN out(Some(FALSE), None, "cannot navigate", attempts + 1, checked - 1)
       ELSE PassFrom(cal, cursor + 1, checked, attempts + 1, f, seen)

\* checkAllMonthsForAppointments: the reload, then the loop.
CheckAllMonthsForAppointmentsOf(cal, cursor, f) ==
  IF f.kind = "reload" THEN
    [result |-> None, threw |-> Some(f.msg), exit |-> "threw",
     monthsChecked |-> 0, attempts |-> 0, advances |-> 0, cursor |-> cursor,
     inspections |-> <<>>]
  ELSE PassFrom(cal, cursor, 0, 0, f, <<>>)

\* resetToFirstMonth: the step that succeeds decides where the page ends.
ResetSteps == {"goto", "reload", "direct", "none"}

ResetToFirstMonthOf(cursor, step) ==
  IF step \in {"goto", "direct"} THEN 1 ELSE cursor

\* The rethrow test of the monitoring loop's catch block, without the
\* 'Target closed' marker.
IsRestartError_NoTargetClosed(message) ==
  \/ Includes(message, <<"Browser", "session", "restarted">>)
  \/ Includes(message, <<"Protocol", "error">>)
  \/ Includes(message, <<"Execution", "context", "was", "destroyed">>)

\* The rethrow test of the monitoring loop's catch block.
IsRestartError(message) ==
  \/ Includes(message, <<"Browser", "session", "restarted">>)
  \/ Includes(message, <<"Protocol", "error">>)
  \/ Includes(message, <<"Target", "closed">>)
  \/ Includes(message, <<"Execution", "context", "was", "destroyed">>)

NoCycle ==
  [ran |-> FALSE, fault |-> [kind |-> "none", at |-> 0, msg |-> NoMsg],
   raised |-> None, thrown |-> None, waited |-> "none", passRan |-> FALSE,
   pass |-> [result |-> None, threw |-> None, exit |-> "none", monthsChecked |-> 0,
             attempts |-> 0, advances |-> 0, cursor |-> 1, inspections |-> <<>>],
   from |-> 1, reset |-> ""]

\* The loop leaving whenever a pass completes, slot or no slot.
AppointmentsFound_AnyPass(pass) == IsSome(pass.result)

\* if (appointmentsFound) on the value checkAllMonthsForAppointments returned.
AppointmentsFound(pass) == pass.result = Some(TRUE)

\* One iteration of the while (true) loop of monitorAppointments.
MonitorCycleOf(cal, cursor, f, step) ==
  LET probeFailed == f.kind = "probe"
      pass == IF probeFailed THEN NoCycle.pass
              ELSE CheckAllMonthsForAppointmentsOf(cal, cursor, f)
      raised == IF probeFailed THEN Some(PageInvalidated) ELSE pass.threw
      obs == [NoCycle EXCEPT !.ran = TRUE, !.fault = f, !.raised = raised,
                             !.passRan = ~probeFailed, !.pass = pass,
                             !.from = cursor]
  IN IF IsSome(raised) THEN
       IF IsRestartError(Val(raised))
       THEN [pc |-> "threw", cursor |-> pass.cursor,
             obs |-> [obs EXCEPT !.thrown = raised]]
       ELSE [pc |-> "running", cursor |-> pass.cursor,
             obs |-> [obs EXCEPT !.waited = "30 seconds"]]
     ELSE IF AppointmentsFound(pass) THEN
       [pc |-> "returned", cursor |-> pass.cursor,
        obs |-> [obs EXCEPT !.waited = "operator"]]
     ELSE
       [pc |-> "running", cursor |-> ResetToFirstMonthOf(pass.cursor, step),
        obs |-> [obs EXCEPT !.waited = "next cycle", !.reset = step]]

InitPoller ==
  /\ calendar \in Calendars
  /\ calCursor = 1
  /\ monPc = "running"
  /\ pollObs = NoCycle
  /\ cycles = 0

PollerRest ==
  /\ calendar = [i \in 1..1 |-> [slots |-> <<>>, next |-> "none"]]
  /\ calCursor = 1
  /\ monPc = "running"
  /\ pollObs = NoCycle
  /\ cycles = 0

MonitorCycle ==
  /\ monPc = "running"
  /\ cycles < MaxCycles
  /\ \E f \in CycleFaults, step \in ResetSteps :
       /\ (f.kind = "none" \/ step = "goto")
       /\ \E c \in {MonitorCycleOf(calendar, calCursor, f, step)} :
          /\ monPc' = c.pc
          /\ calCursor' = c.cursor
          /\ pollObs' = c.obs
  /\ cycles' = cycles + 1
  /\ UNCHANGED calendar
  /\ UNCHANGED notPoller

NextPoller == MonitorCycle

(***************************************************************************)
(* ipHealthCheck.ts: the IP health check.                                  *)
(***************************************************************************)
UpperCase ==
  <<"A", "B", "C", "D", "E", "F", "G", "H", "I", "J", "K", "L", "M",
    "N", "O", "P", "Q", "R", "S", "T", "U", "V", "W", "X", "Y", "Z">>
LowerCase ==
  <<"a", "b", "c", "d", "e", "f", "g", "h", "i", "j", "k", "l", "m",
    "n", "o", "p", "q", "r", "s", "t", "u", "v", "w", "x", "y", "z">>

\* String.prototype.toLowerCase on a text given as its characters.
ToLowerCase(str) ==
  [i \in 1..Len(str) |->
     IF \E k \in 1..26 : UpperCase[k] = str[i]
     THEN LowerCase[CHOOSE k \in 1..26 : UpperCase[k] = str[i]]
     ELSE str[i]]

tlsURL == <<"https://visas-de.tlscontact.com/visa/gb/", "gbLON2de", "/home">>

Unknown == <<"U", "n", "k", "n", "o", "w", "n">>

suspiciousISPs ==
  <<<<"h", "o", "s", "t", "i", "n", "g">>,
    <<"d", "a", "t", "a", "c", "e", "n", "t", "e", "r">>,
    <<"c", "l", "o", "u", "d">>,
    <<"s", "e", "r", "v", "e", "r">>,
    <<"v", "i", "r", "t", "u", "a", "l">>,
    <<"p", "r", "o", "x", "y">>,
    <<"v", "p", "n">>,
    <<"a", "m", "a", "z", "o", "n">>,
    <<"g", "o", "o", "g", "l", "e", " ", "c", "l", "o", "u", "d">>,
    <<"m", "i", "c", "r", "o", "s", "o", "f", "t">>,
    <<"d", "i", "g", "i", "t", "a", "l", "o", "c", "e", "a", "n">>,
    <<"l", "i", "n", "o", "d", "e">>,
    <<"v", "u", "l", "t", "r">>,
    <<"o", "v", "h">>,
    <<"h", "e", "t", "z", "n", "e", "r">>>>

problematicASNs ==
  <<<<"C", "l", "o", "u", "d", "f", "l", "a", "r", "e">>,
    <<"A", "m", "a", "z", "o", "n">>,
    <<"G", "o", "o", "g", "l", "e">>,
    <<"M", "i", "c", "r", "o", "s", "o", "f", "t">>,
    <<"D", "i", "g", "i", "t", "a", "l", "O", "c", "e", "a", "n">>,
    <<"L", "i", "n", "o", "d", "e">>,
    <<"V", "u", "l", "t", "r">>>>

acceptableCountries ==
  <<<<"G", "B">>, <<"U", "K">>, <<"D", "E">>,
    <<"G", "e", "r", "m", "a", "n", "y">>>>

\* Details pushed to result.details: a leading mark and the text.
Warn(text) == <<"warning sign", text>>
Note(text) == <<text>>

\* Answers of the lookup services.
CleanISP == <<"B", "T", " ", "P", "L", "C">>
HostingISP == <<"A", "c", "m", "e", " ", "H", "o", "s", "t", "i", "n", "g">>
OvhISP == <<"O", "V", "H", " ", "S", "A", "S">>
CleanASN == <<"A", "S", "2", "8", "5", "6", " ", "B", "T">>
AmazonASN == <<"A", "S", "1", "6", "5", "0", "9", " ", "A", "m", "a", "z", "o", "n">>

\* An ip-api.com answer: the request fails, or it answers with a status.
ProxyAnswers ==
  [fetch : {"ok"}, status : {"success"}, proxy : BOOLEAN, hosting : BOOLEAN]
  \cup [fetch : {"ok", "failed"}, status : {"fail"}, proxy : {FALSE}, hosting : {FALSE}]

ReputationAnswers ==
  [fetch : {"ok"}, status : {"success"}, as : {CleanASN, AmazonASN, <<>>},
   mobile : BOOLEAN]
  \cup [fetch : {"ok", "failed"}, status : {"fail"}, as : {<<>>}, mobile : {FALSE}]

\* An ipinfo.io answer; an absent field is the empty text.
IpInfoAnswers ==
  [fetch : {"ok"},
   country : {<<"G", "B">>, <<"U", "S">>, <<>>},
   region : {<<"E", "n", "g", "l", "a", "n", "d">>, <<>>},
   org : {CleanISP, HostingISP, OvhISP}]
  \cup [fetch : {"failed"}, country : {<<>>}, region : {<<>>}, org : {CleanISP}]

IPInputs == [ipinfo : IpInfoAnswers, proxy : ProxyAnswers, reputation : ReputationAnswers]

\* The result object checkIPHealth starts from.
InitialResult ==
  [location |-> [country |-> <<>>, region |-> <<>>, isp |-> <<>>],
   risks |-> [isProxy |-> FALSE, isVPN |-> FALSE, fraudScore |-> 0],
   recommendation |-> "SAFE",
   details |-> <<>>]

\* The first element of a list that a text includes, if any.
FirstIncluded(list, str) ==
  IF \E k \in 1..Len(list) : Includes(str, list[k])
  THEN Some(list[CHOOSE k \in 1..Len(list) :
                   /\ Includes(str, list[k])
                   /\ \A j \in 1..(k - 1) : ~Includes(str, list[j])])
  ELSE None

\* checkProxyDetection.
CheckProxyDetectionOf(result, answer) ==
  IF answer.fetch = "failed" THEN
    [result EXCEPT !.details = Append(@, Note("Proxy detection check failed"))]
  ELSE
    LET success == answer.status = "success"
        r1 == IF success
              THEN [result EXCEPT
                      !.risks.isProxy = answer.proxy,
                      !.risks.isVPN = answer.hosting,
                      !.details =
                        @ \o (IF answer.proxy
                              THEN <<Warn("IP detected as proxy by ip-api.com")>>
                              ELSE <<>>)
                          \o (IF answer.hosting
                              THEN <<Warn("IP detected as hosting/datacenter by ip-api.com")>>
                              ELSE <<>>)]
              ELSE result
        suspicious == FirstIncluded(suspiciousISPs, ToLowerCase(r1.location.isp))
    IN IF IsSome(suspicious)
       THEN [r1 EXCEPT !.risks.isVPN = TRUE,
                       !.details = Append(@, Warn("ISP contains suspicious keyword"))]
       ELSE r1

\* checkIPReputation.
CheckIPReputationOf(result, answer) ==
  IF answer.fetch = "failed" THEN
    [result EXCEPT !.details = Append(@, Note("IP reputation check failed"))]
  ELSE
    LET success == answer.status = "success"
        r1 == IF success /\ answer.mobile
              THEN [result EXCEPT
                      !.details = Append(@, Note("Mobile IP detected - may have restrictions"))]
              ELSE result
        problematic == FirstIncluded(problematicASNs, answer.as)
        r2 == IF success /\ IsSome(problematic)
              THEN [r1 EXCEPT !.risks.isVPN = TRUE,
                              !.details = Append(@, Warn("ASN indicates cloud provider"))]
              ELSE r1
        fraudScore ==
          (IF r2.risks.isProxy THEN 30 ELSE 0)
          + (IF r2.risks.isVPN THEN 25 ELSE 0)
          + (IF Includes(ToLowerCase(r2.location.isp),
                         <<"h", "o", "s", "t", "i", "n", "g">>) THEN 20 ELSE 0)
          + (IF r2.location.country = Unknown THEN 15 ELSE 0)
    IN [r2 EXCEPT !.risks.fraudScore = Min(fraudScore, 100)]

\* analyzeIPHealth.
AnalyzeIPHealthOf(result) ==
  LET isGermanyApplication == Includes(tlsURL, <<"gbLON2de">>)
      isGeoConsistent ==
        \E k \in 1..Len(acceptableCountries) :
          \/ Includes(result.location.country, acceptableCountries[k])
          \/ Includes(result.location.region, acceptableCountries[k])
      r1 == IF ~isGermanyApplication THEN result
            ELSE IF ~isGeoConsistent
            THEN [result EXCEPT !.details = Append(@, Note("Geolocation mismatch")),
                                !.risks.fraudScore = @ + 20]
            ELSE [result EXCEPT
                    !.details = Append(@, Note("Geolocation consistent with visa application"))]
  IN IF r1.risks.fraudScore >= 70 \/ r1.risks.isProxy \/ r1.risks.isVPN
     THEN [r1 EXCEPT !.recommendation = "UNSAFE",
                     !.details = Append(@, Note("HIGH RISK"))]
     ELSE IF \/ r1.risks.fraudScore >= 30
             \/ \E k \in 1..Len(r1.details) : Includes(r1.details[k], <<"warning sign">>)
     THEN [r1 EXCEPT !.recommendation = "CAUTION",
                     !.details = Append(@, Warn("MEDIUM RISK"))]
     ELSE [r1 EXCEPT !.recommendation = "SAFE",
                     !.details = Append(@, Note("LOW RISK"))]

\* A field of the ipinfo.io answer, or 'Unknown' when it is absent.
OrUnknown(field) == IF field = <<>> THEN Unknown ELSE field

\* checkIPHealth.
CheckIPHealthOf(in) ==
  IF in.ipinfo.fetch = "failed" THEN
    [InitialResult EXCEPT
       !.details = Append(@, Note("Failed to complete IP health check")),
       !.recommendation = "CAUTION"]
  ELSE
    LET r0 == [InitialResult EXCEPT
                 !.location = [country |-> OrUnknown(in.ipinfo.country),
                               region |-> OrUnknown(in.ipinfo.region),
                               isp |-> OrUnknown(in.ipinfo.org)]]
    IN AnalyzeIPHealthOf(
         CheckIPReputationOf(CheckProxyDetectionOf(r0, in.proxy), in.reputation))

NoIPInput == None

InitIP ==
  /\ ipInput = NoIPInput
  /\ ipResult = InitialResult

IPRest == InitIP

\* checkIPHealth runs once, at the start of a run.
CheckIPHealth ==
  /\ ~IsSome(ipInput)
  /\ \E in \in IPInputs :
       /\ ipInput' = Some(in)
       /\ ipResult' = CheckIPHealthOf(in)
  /\ UNCHANGED notIP

NextIP == CheckIPHealth

(***************************************************************************)
(* The run as a whole (index.ts) at the granularity of its awaits: the     *)
(* main task, the signal handler, the watchdog callback and the memory     *)
(* sampler interleave on one BrowserManager wherever one of them awaits.   *)
(* Of the puppeteer calls only the launch can fail here; the failures of   *)
(* the others are the subject of the operation-level model of the manager  *)
(* above.                                                                  *)
(***************************************************************************)
MaxSessions == 2    \* iterations of the main loop (maxSessions in the source is 50)
MaxBrowsers == 2    \* browsers launched in one run

BrowserIds == 1..MaxBrowsers

Tasks == {"main", "watchdog", "signal"}

Signals == {"SIGINT", "SIGTERM"}

Recommendations == {"SAFE", "CAUTION", "UNSAFE"}

Answers == {"proceed", "stop", "manual", "other"}

\* promptUserDecision: TRUE/FALSE is the value it returns, "exit" is
\* process.exit(0) inside it.
PromptUserDecisionOf(recommendation, answer) ==
  IF recommendation = "SAFE" THEN "true"
  ELSE CASE answer = "proceed" -> "true"
         [] answer = "stop" -> "exit"
         [] answer = "manual" -> "false"
         [] OTHER -> "exit"

IdleTask == [op |-> "none", pc |-> "idle", cont |-> "none", ref |-> 0]

LiveSession(id) == [browser |-> id, old |-> FALSE, memoryUsage |-> 0]

\* The counters of the SessionInfo that launchBrowser builds.
SessionInfoAtLaunch_Dirty == [captchaSolved |-> 0, errors |-> 1]

SessionInfoAtLaunch == [captchaSolved |-> 0, errors |-> 0]

\* The page of a browser that has been closed: every call on it rejects.
BrowserClosed(c, id) == c[id] \in {"closed", "closedUnsaved"}

\* How scrapeTLSContact can end on the page of browser id: monitorAppointments
\* finds appointments, or an error leaves the call. On a closed page the
\* validity probe at the top of the monitoring cycle rejects and the error it
\* raises is rethrown.
ScrapeOutcomes_NoProbe(c, id) == {"appointments", "threw"}

ScrapeOutcomes(c, id) ==
  IF BrowserClosed(c, id) THEN {"threw"} ELSE {"appointments", "threw"}

\* The catch of the main loop up to its restartBrowser: the error is counted
\* on the session the manager holds at that moment.
ErrorsAfterCatch(errors, s) ==
  IF IsSome(s) THEN [errors EXCEPT ![Val(s).browser] = @ + 1] ELSE errors

\* shouldRestart on the live manager: age and memory are kept as flags.
ShouldRestartLive(s) ==
  IF ~IsSome(s) THEN TRUE
  ELSE Val(s).old \/ Val(s).memoryUsage = 1

\* launchBrowser up to its first await.
LaunchBegin(op, cont) ==
  [op |-> op, pc |-> "puppeteer.launch", cont |-> cont, ref |-> 0]

\* restartBrowser up to its first await: saveSessionData when there is a
\* session, launchBrowser otherwise.
RestartBegin(s, cont) ==
  IF IsSome(s)
    THEN [op |-> "restart", pc |-> "saveSessionData", cont |-> cont, ref |-> 0]
    ELSE LaunchBegin("restart", cont)

\* cleanup up to its first await; with no session it returns at once.
CleanupBegin(s, cont) ==
  IF IsSome(s)
    THEN [op |-> "cleanup", pc |-> "saveSessionData", cont |-> cont, ref |-> 0]
    ELSE [op |-> "cleanup", pc |-> "returned", cont |-> cont, ref |-> 0]

\* A task that has run to its end.
FinishedTask == [op |-> "cleanup", pc |-> "finished", cont |-> "none", ref |-> 0]

\* The finally block of main.
FinallyBegin(s) ==
  LET c == CleanupBegin(s, "finished")
  IN IF c.pc = "returned" THEN FinishedTask ELSE c

\* The while condition and the loop body up to its first await.
LoopTop(s, count) ==
  IF count >= MaxSessions
    THEN [task |-> FinallyBegin(s), count |-> count, left |-> "limit"]
    ELSE IF ~IsSome(s) \/ ShouldRestartLive(s)
      THEN [task |-> RestartBegin(s, "loop.save"), count |-> count + 1, left |-> "none"]
      ELSE [task |-> [op |-> "main", pc |-> "loop.save", cont |-> "none",
                      ref |-> Val(s).browser],
            count |-> count + 1, left |-> "none"]

\* Where a task goes when the manager operation it awaited returns, given
\* the session s the operation left behind.
Resume(t, cont, s, count, ref) ==
  CASE t = "watchdog" ->
         [task |-> IdleTask, count |-> count, exit |-> FALSE, left |-> "none"]
    [] t = "signal" ->
         [task |-> [IdleTask EXCEPT !.pc = "exited"], count |-> count,
          exit |-> TRUE, left |-> "none"]
    [] cont = "loop.save" ->
         [task |-> [op |-> "main", pc |-> "loop.save", cont |-> "none", ref |-> ref],
          count |-> count, exit |-> FALSE, left |-> "none"]
    [] cont = "wait" ->
         [task |-> [op |-> "main", pc |-> "wait", cont |-> "none", ref |-> 0],
          count |-> count, exit |-> FALSE, left |-> "none"]
    [] cont = "loop" ->
         [task |-> LoopTop(s, count).task, count |-> LoopTop(s, count).count,
          exit |-> FALSE, left |-> LoopTop(s, count).left]
    [] OTHER ->
         [task |-> FinishedTask, count |-> count, exit |-> FALSE, left |-> "none"]

\* A teardown or a replacement of the session by a task other than t is
\* under way.
Replacing(t) ==
  \E u \in Tasks \ {t} :
    /\ tasks[u].op \in {"restart", "cleanup"}
    /\ tasks[u].pc \in {"saveSessionData", "closeSession", "puppeteer.launch", "page.setup"}

NoTick == [kind |-> "none", during |-> FALSE, effect |-> "noop"]

NoGate == [recommendation |-> "SAFE", answer |-> "proceed", decision |-> "none"]

InitLifecycle ==
  /\ live = [session |-> None, watchdogInterval |-> FALSE, memoryCheckInterval |-> FALSE]
  /\ chrome = [id \in BrowserIds |-> "none"]
  /\ tasks = [t \in Tasks |-> IF t = "main" THEN [IdleTask EXCEPT !.pc = "gate"] ELSE IdleTask]
  /\ memTick = "idle"
  /\ run = [sessionCount |-> 0, stop |-> FALSE, gate |-> NoGate, signal |-> None,
            exited |-> "none", unhandled |-> FALSE, left |-> "none",
            errors |-> [id \in BrowserIds |-> 0], summary |-> None]
  /\ tickObs = NoTick

LifecycleRest == InitLifecycle

Alive == run.exited = "none"

Saved(c, s) ==
  IF IsSome(s) /\ c[Val(s).browser] = "open"
    THEN [c EXCEPT ![Val(s).browser] = "saved"]
    ELSE c

Closed(c, id) ==
  [c EXCEPT ![id] = CASE c[id] = "saved" -> "closed"
                      [] c[id] = "open" -> "closedUnsaved"
                      [] OTHER -> c[id]]

NoTimers(l) ==
  [l EXCEPT !.watchdogInterval = FALSE, !.memoryCheckInterval = FALSE]

\* A task after the manager operation it runs has returned, and the run's
\* counters with it.
Finish(t, s, base) ==
  LET r == Resume(t, tasks[t].cont, s, run.sessionCount, tasks[t].ref)
  IN /\ tasks' = [tasks EXCEPT ![t] = r.task]
     /\ run' = [base EXCEPT !.sessionCount = r.count,
                            !.exited = IF r.exit THEN "signal" ELSE run.exited,
                            !.left = IF r.left # "none" THEN r.left ELSE run.left]

\* main: the answer to promptUserDecision after the IP health check.
GateAnswer ==
  /\ Alive
  /\ tasks["main"].pc = "gate"
  /\ \E recommendation \in Recommendations, answer \in Answers :
       LET d == PromptUserDecisionOf(recommendation, answer)
           g == [recommendation |-> recommendation, answer |-> answer, decision |-> d]
           top == LoopTop(live.session, run.sessionCount)
       IN /\ (recommendation = "SAFE" => answer = "proceed")
          /\ CASE d = "exit" ->
                    /\ run' = [run EXCEPT !.gate = g, !.exited = "gate"]
                    /\ tasks' = [tasks EXCEPT !["main"] = [IdleTask EXCEPT !.pc = "exited"]]
               [] d = "false" ->
                    /\ run' = [run EXCEPT !.gate = g, !.left = "declined"]
                    /\ tasks' = [tasks EXCEPT !["main"] = FinallyBegin(live.session)]
               [] OTHER ->
                    /\ run' = [run EXCEPT !.gate = g, !.sessionCount = top.count,
                                          !.left = top.left]
                    /\ tasks' = [tasks EXCEPT !["main"] = top.task]
  /\ tickObs' = NoTick
  /\ UNCHANGED <<live, chrome, memTick>>
  /\ UNCHANGED notLifecycle

\* saveSessionData returns inside restartBrowser or cleanup; closeSession
\* then runs up to its await of browser.close(), or to its end when the
\* session is gone.
SaveReturns(t) ==
  /\ Alive
  /\ tasks[t].op \in {"restart", "cleanup"}
  /\ tasks[t].pc = "saveSessionData"
  /\ chrome' = Saved(chrome, live.session)
  /\ IF IsSome(live.session)
       THEN /\ tasks' = [tasks EXCEPT ![t].pc = "closeSession",
                                      ![t].ref = Val(live.session).browser]
            /\ UNCHANGED <<live, run>>
       ELSE /\ live' = NoTimers(live)
            /\ IF tasks[t].op = "restart"
                 THEN /\ tasks' = [tasks EXCEPT ![t] = LaunchBegin("restart", tasks[t].cont)]
                      /\ UNCHANGED run
                 ELSE Finish(t, None, run)
  /\ tickObs' = NoTick
  /\ UNCHANGED memTick
  /\ UNCHANGED notLifecycle

\* browser.close() returns inside closeSession: the session is dropped and
\* both timers are cleared; restartBrowser goes on to launchBrowser.
CloseReturns(t) ==
  /\ Alive
  /\ tasks[t].pc = "closeSession"
  /\ chrome' = Closed(chrome, tasks[t].ref)
  /\ live' = NoTimers([live EXCEPT !.session = None])
  /\ IF tasks[t].op = "restart"
       THEN /\ tasks' = [tasks EXCEPT ![t] = LaunchBegin("restart", tasks[t].cont)]
            /\ UNCHANGED run
       ELSE Finish(t, None, run)
  /\ tickObs' = NoTick
  /\ UNCHANGED memTick
  /\ UNCHANGED notLifecycle

\* puppeteer.launch returns inside launchBrowser: a browser is open, the
\* manager does not hold it yet.
LaunchReturns(t) ==
  /\ Alive
  /\ tasks[t].pc = "puppeteer.launch"
  /\ \E id \in BrowserIds :
       /\ chrome[id] = "none"
       /\ \A other \in BrowserIds : other < id => chrome[other] # "none"
       /\ chrome' = [chrome EXCEPT ![id] = "open"]
       /\ tasks' = [tasks EXCEPT ![t].pc = "page.setup", ![t].ref = id]
  /\ tickObs' = NoTick
  /\ UNCHANGED <<live, memTick, run>>
  /\ UNCHANGED notLifecycle

\* puppeteer.launch rejects, with and without the proxy: launchBrowser and
\* the restartBrowser around it throw. In the catch of the main loop that
\* ends the loop; inside its try it is one more error for the catch; in the
\* watchdog callback nothing handles it.
LaunchFails(t) ==
  /\ Alive
  /\ tasks[t].pc = "puppeteer.launch"
  /\ CASE t = "watchdog" ->
            /\ tasks' = [tasks EXCEPT ![t] = IdleTask]
            /\ run' = [run EXCEPT !.unhandled = TRUE]
       [] tasks[t].cont = "wait" ->
            /\ tasks' = [tasks EXCEPT ![t] = FinallyBegin(live.session)]
            /\ run' = [run EXCEPT !.left = "restart failed"]
       [] OTHER ->
            /\ tasks' = [tasks EXCEPT ![t] = RestartBegin(live.session, "wait")]
            /\ run' = [run EXCEPT !.errors = ErrorsAfterCatch(run.errors, live.session)]
  /\ tickObs' = NoTick
  /\ UNCHANGED <<live, chrome, memTick>>
  /\ UNCHANGED notLifecycle

\* The page set-up awaited by launchBrowser returns: the session is
\* assigned, both timers start, and restartBrowser returns to its caller.
SetupReturns(t) ==
  /\ Alive
  /\ tasks[t].pc = "page.setup"
  /\ LET s == Some(LiveSession(tasks[t].ref))
     IN /\ live' = [session |-> s, watchdogInterval |-> TRUE, memoryCheckInterval |-> TRUE]
        /\ Finish(t, s, [run EXCEPT !.errors[tasks[t].ref] = SessionInfoAtLaunch.errors])
  /\ tickObs' = NoTick
  /\ UNCHANGED <<chrome, memTick>>
  /\ UNCHANGED notLifecycle

\* main: saveSessionData before scraping returns; scrapeTLSContact starts.
LoopSaveReturns ==
  /\ Alive
  /\ tasks["main"].op = "main"
  /\ tasks["main"].pc = "loop.save"
  /\ chrome' = Saved(chrome, live.session)
  /\ tasks' = [tasks EXCEPT !["main"].pc = "scrape"]
  /\ tickObs' = NoTick
  /\ UNCHANGED <<live, memTick, run>>
  /\ UNCHANGED notLifecycle

\* main: scrapeTLSContact comes to an end on the page it was given.
\* monitorAppointments finds appointments and waits for the operator, or an
\* error reaches the catch of the main loop, which counts it and restarts
\* the browser.
ScrapeReturns ==
  /\ Alive
  /\ tasks["main"].pc = "scrape"
  /\ LET id == tasks["main"].ref
     IN /\ chrome' = IF chrome[id] = "saved" THEN [chrome EXCEPT ![id] = "open"] ELSE chrome
        /\ \E outcome \in ScrapeOutcomes(chrome, id) :
             IF outcome = "threw"
               THEN /\ tasks' = [tasks EXCEPT !["main"] = RestartBegin(live.session, "wait")]
                    /\ run' = [run EXCEPT
                                 !.errors = ErrorsAfterCatch(run.errors, live.session)]
               ELSE /\ tasks' = [tasks EXCEPT !["main"].pc = "booking"]
                    /\ UNCHANGED run
  /\ tickObs' = NoTick
  /\ UNCHANGED <<live, memTick>>
  /\ UNCHANGED notLifecycle

\* main: the operator's key press ends waitForUserInput; monitorAppointments
\* and scrapeTLSContact return and the loop prints the summary of the
\* session it gave to the call.
BookingReturns ==
  /\ Alive
  /\ tasks["main"].pc = "booking"
  /\ tasks' = [tasks EXCEPT !["main"].pc = "prompt"]
  /\ run' = [run EXCEPT !.summary = Some(run.errors[tasks["main"].ref])]
  /\ tickObs' = NoTick
  /\ UNCHANGED <<live, chrome, memTick>>
  /\ UNCHANGED notLifecycle

Choices12 == {"", "restart", "stop"}

\* main: the operator's answer after a scraping session.
PromptAnswer ==
  /\ Alive
  /\ tasks["main"].pc = "prompt"
  /\ \E choice \in Choices12 :
       LET top == LoopTop(live.session, run.sessionCount)
       IN CASE choice = "stop" ->
                 /\ tasks' = [tasks EXCEPT !["main"] = FinallyBegin(live.session)]
                 /\ run' = [run EXCEPT !.stop = TRUE, !.left = "stop"]
            [] choice = "restart" ->
                 /\ tasks' = [tasks EXCEPT !["main"] = RestartBegin(live.session, "loop")]
                 /\ UNCHANGED run
            [] OTHER ->
                 /\ tasks' = [tasks EXCEPT !["main"] = top.task]
                 /\ run' = [run EXCEPT !.sessionCount = top.count, !.left = top.left]
  /\ tickObs' = NoTick
  /\ UNCHANGED <<live, chrome, memTick>>
  /\ UNCHANGED notLifecycle

\* main: the 30 second wait after an error is over.
WaitReturns ==
  /\ Alive
  /\ tasks["main"].pc = "wait"
  /\ LET top == LoopTop(live.session, run.sessionCount)
     IN /\ tasks' = [tasks EXCEPT !["main"] = top.task]
        /\ run' = [run EXCEPT !.sessionCount = top.count, !.left = top.left]
  /\ tickObs' = NoTick
  /\ UNCHANGED <<live, chrome, memTick>>
  /\ UNCHANGED notLifecycle

\* Time passes: the session grows older than maxSessionDuration.
SessionAges ==
  /\ Alive
  /\ IsSome(live.session)
  /\ ~Val(live.session).old
  /\ live' = [live EXCEPT !.session = Some([Val(live.session) EXCEPT !.old = TRUE])]
  /\ tickObs' = NoTick
  /\ UNCHANGED <<chrome, tasks, memTick, run>>
  /\ UNCHANGED notLifecycle

\* The watchdog's interval callback.
WatchdogFires ==
  /\ Alive
  /\ live.watchdogInterval
  /\ tasks["watchdog"].pc = "idle"
  /\ IF ShouldRestartLive(live.session)
       THEN /\ tasks' = [tasks EXCEPT !["watchdog"] = RestartBegin(live.session, "none")]
            /\ tickObs' = [kind |-> "watchdog", during |-> Replacing("watchdog"),
                           effect |-> "restart"]
       ELSE /\ UNCHANGED tasks
            /\ tickObs' = [kind |-> "watchdog", during |-> Replacing("watchdog"),
                           effect |-> "noop"]
  /\ UNCHANGED <<live, chrome, memTick, run>>
  /\ UNCHANGED notLifecycle

\* The memory sampler's interval callback up to its await of
\* getBrowserMemoryUsage.
MemoryFires ==
  /\ Alive
  /\ live.memoryCheckInterval
  /\ memTick = "idle"
  /\ memTick' = IF IsSome(live.session) THEN "sampling" ELSE "idle"
  /\ tickObs' = NoTick
  /\ UNCHANGED <<live, chrome, tasks, run>>
  /\ UNCHANGED notLifecycle

\* getBrowserMemoryUsage returns and the callback stores the sample in
\* this.session, which it does not test again.
MemoryResumes ==
  /\ Alive
  /\ memTick = "sampling"
  /\ memTick' = "idle"
  /\ IF IsSome(live.session)
       THEN /\ \E sample \in {0, 1} :
                 live' = [live EXCEPT !.session =
                            Some([Val(live.session) EXCEPT !.memoryUsage = sample])]
            /\ tickObs' = [kind |-> "memory", during |-> Replacing("memory"),
                           effect |-> "write"]
            /\ UNCHANGED run
       ELSE /\ run' = [run EXCEPT !.unhandled = TRUE]
            /\ tickObs' = [kind |-> "memory", during |-> TRUE, effect |-> "error"]
            /\ UNCHANGED live
  /\ UNCHANGED <<chrome, tasks>>
  /\ UNCHANGED notLifecycle

\* SIGINT or SIGTERM: cleanup, then process.exit(0).
SignalArrives ==
  /\ Alive
  /\ tasks["signal"].pc = "idle"
  /\ \E sig \in Signals :
       LET c == CleanupBegin(live.session, "none")
       IN IF c.pc = "returned"
            THEN /\ tasks' = [tasks EXCEPT !["signal"] = [IdleTask EXCEPT !.pc = "exited"]]
                 /\ run' = [run EXCEPT !.signal = Some(sig), !.exited = "signal"]
            ELSE /\ tasks' = [tasks EXCEPT !["signal"] = c]
                 /\ run' = [run EXCEPT !.signal = Some(sig)]
  /\ tickObs' = NoTick
  /\ UNCHANGED <<live, chrome, memTick>>
  /\ UNCHANGED notLifecycle

SaveReturnsAny == \E t \in Tasks : SaveReturns(t)

CloseReturnsAny == \E t \in Tasks : CloseReturns(t)

LaunchReturnsAny == \E t \in Tasks : LaunchReturns(t)

LaunchFailsAny == \E t \in Tasks : LaunchFails(t)

SetupReturnsAny == \E t \in Tasks : SetupReturns(t)

NextLifecycle ==
  \/ GateAnswer
  \/ SaveReturnsAny
  \/ CloseReturnsAny
  \/ LaunchReturnsAny
  \/ LaunchFailsAny
  \/ SetupReturnsAny
  \/ LoopSaveReturns
  \/ ScrapeReturns
  \/ BookingReturns
  \/ PromptAnswer
  \/ WaitReturns
  \/ SessionAges
  \/ WatchdogFires
  \/ MemoryFires
  \/ MemoryResumes
  \/ SignalArrives

(***************************************************************************)
(* captchaService.ts : provider selection and solveCaptcha.                *)
(***************************************************************************)
retryAttempts == 2

ChallengeTypes ==
  {"recaptcha-v2", "recaptcha-v3", "hcaptcha", "turnstile", "cloudflare", "funcaptcha"}

PreferredServices == {"twocaptcha", "anticaptcha", "auto"}

ServiceConfigs == [two : BOOLEAN, anti : BOOLEAN, preferred : PreferredServices]

\* What the 2Captcha API does with one request.
ProviderOutcomes == {"solved", "rejected"}

\* getPreferredService ignoring the configured preference.
GetPreferredServiceOf_TwoFirst(cfg) ==
  IF cfg.two THEN "twocaptcha" ELSE "anticaptcha"

\* getPreferredService(): cfg.two and cfg.anti say which clients exist.
GetPreferredServiceOf(cfg) ==
  IF cfg.preferred = "twocaptcha" /\ cfg.two THEN "twocaptcha"
  ELSE IF cfg.preferred = "anticaptcha" /\ cfg.anti THEN "anticaptcha"
  ELSE IF cfg.two THEN "twocaptcha"
  ELSE "anticaptcha"

SolveResult(success, error, service) ==
  [success |-> success, error |-> error, service |-> service]

\* solveWithTwoCaptcha(challenge)
SolveWithTwoCaptchaOf(cfg, type, outcome) ==
  IF ~cfg.two THEN SolveResult(FALSE, "2Captcha not initialized", "twocaptcha")
  ELSE IF type = "cloudflare"
    THEN SolveResult(FALSE, "Unsupported CAPTCHA type", "twocaptcha")
  ELSE IF outcome = "solved" THEN SolveResult(TRUE, "", "twocaptcha")
  ELSE SolveResult(FALSE, "provider error", "twocaptcha")

\* solveWithAntiCaptcha(challenge): the request is never sent.
SolveWithAntiCaptchaOf(cfg, type) ==
  IF ~cfg.anti THEN SolveResult(FALSE, "Anti-Captcha not initialized", "anticaptcha")
  ELSE IF type = "cloudflare"
    THEN SolveResult(FALSE, "Unsupported CAPTCHA type", "anticaptcha")
  ELSE SolveResult(FALSE, "Anti-Captcha requires HTTP API implementation", "anticaptcha")

\* solveCaptcha(challenge) from attempt k on; calls lists the providers
\* whose solveWith... has been called so far.
RECURSIVE SolveFrom(_, _, _, _, _)
SolveFrom(cfg, type, outcomes, k, calls) ==
  IF k > retryAttempts
    THEN [result |-> SolveResult(FALSE, "Failed to solve CAPTCHA after attempts", ""),
          calls |-> calls]
  ELSE
    LET service == GetPreferredServiceOf(cfg)
    IN IF service = "twocaptcha" /\ cfg.two
         THEN LET r == SolveWithTwoCaptchaOf(cfg, type, outcomes[k])
              IN IF r.success
                   THEN [result |-> r, calls |-> Append(calls, "twocaptcha")]
                   ELSE SolveFrom(cfg, type, outcomes, k + 1, Append(calls, "twocaptcha"))
       ELSE IF service = "anticaptcha" /\ cfg.anti
         THEN LET r == SolveWithAntiCaptchaOf(cfg, type)
              IN IF r.success
                   THEN [result |-> r, calls |-> Append(calls, "anticaptcha")]
                   ELSE SolveFrom(cfg, type, outcomes, k + 1, Append(calls, "anticaptcha"))
       ELSE [result |-> SolveResult(FALSE, "No captcha service available", ""),
             calls |-> calls]

SolveCaptchaOf(cfg, type, outcomes) == SolveFrom(cfg, type, outcomes, 1, <<>>)

NoSolve ==
  [ran |-> FALSE, type |-> "none", outcomes |-> <<>>, calls |-> <<>>,
   result |-> SolveResult(FALSE, "", "")]

InitSolver ==
  /\ svcConfig \in ServiceConfigs
  /\ svcObs = NoSolve

SolverRest ==
  /\ svcConfig = [two |-> FALSE, anti |-> FALSE, preferred |-> "auto"]
  /\ svcObs = NoSolve

\* One call of solveCaptcha.
SolveCaptcha ==
  /\ \E type \in ChallengeTypes, outcomes \in [1..retryAttempts -> ProviderOutcomes] :
       LET r == SolveCaptchaOf(svcConfig, type, outcomes)
       IN svcObs' = [ran |-> TRUE, type |-> type, outcomes |-> outcomes,
                     calls |-> r.calls, result |-> r.result]
  /\ UNCHANGED svcConfig
  /\ UNCHANGED notSolver

NextSolver == SolveCaptcha

(***************************************************************************)
(* captcha.ts : detectCaptcha.  A page is a fixture: the selector of the   *)
(* structural marker it contains (if any), its URL, title, visible text,   *)
(* whether it has a meta refresh, and the trimmed length of its body text. *)
(* The substring tests of the code are tabulated for the fixtures' URLs,   *)
(* titles and markup.                                                      *)
(***************************************************************************)
\* captchaSelectors, in the order Object.entries yields them.
SelectorTypes == <<"recaptcha", "hcaptcha", "turnstile", "cloudflare", "generic">>

captchaSelectors ==
  [type \in {SelectorTypes[i] : i \in 1..Len(SelectorTypes)} |->
     CASE type = "recaptcha" ->
            <<"iframe[src*=\"recaptcha\"]", ".g-recaptcha", "#recaptcha",
              "[data-sitekey]", ".recaptcha-checkbox">>
       [] type = "hcaptcha" ->
            <<"iframe[src*=\"hcaptcha\"]", ".h-captcha", "#hcaptcha",
              "[data-hcaptcha-sitekey]">>
       [] type = "turnstile" ->
            <<"iframe[src*=\"turnstile\"]", ".cf-turnstile", "#turnstile",
              "[data-cf-turnstile-sitekey]">>
       [] type = "cloudflare" ->
            <<"#cf-challenge-running", ".cf-browser-verification",
              "#challenge-form", ".challenge-stage", ".cf-wrapper",
              ".cf-error-overview", "#cf-content",
              ".cf-challenge-container", "[data-ray]",
              ".challenge-wrapper", ".challenge-error-text",
              "#challenge-error-title">>
       [] type = "generic" ->
            <<"[class*=\"captcha\"]", "[id*=\"captcha\"]",
              "[class*=\"challenge\"]", "[id*=\"challenge\"]",
              ".verification", "#verification", ".robot-check",
              ".security-check", ".bot-detection", ".anti-bot">>]

AllSelectors ==
  UNION { {captchaSelectors[SelectorTypes[i]][j] :
             j \in 1..Len(captchaSelectors[SelectorTypes[i]])} : i \in 1..Len(SelectorTypes) }

captchaKeywords ==
  <<"captcha", "recaptcha", "hcaptcha", "turnstile",
              "verify you are human", "prove you are human",
              "human verification", "security check", "robot verification",
              "anti-robot", "challenge", "verification required",
              "please verify", "checking your browser", "just a moment",
              "ddos protection", "cloudflare", "ray id",
              "performance & security", "browser verification",
              "automated requests">>

\* The captchaKeywords that occur in the lower-cased markup of an element
\* matching the selector (for a wildcard selector, the shortest such markup).
MarkupKeywords(sel) ==
  CASE sel = "iframe[src*=\"recaptcha\"]" -> {"captcha", "recaptcha"}
    [] sel = ".g-recaptcha" -> {"captcha", "recaptcha"}
    [] sel = "#recaptcha" -> {"captcha", "recaptcha"}
    [] sel = "[data-sitekey]" -> {}
    [] sel = ".recaptcha-checkbox" -> {"captcha", "recaptcha"}
    [] sel = "iframe[src*=\"hcaptcha\"]" -> {"captcha", "hcaptcha"}
    [] sel = ".h-captcha" -> {"captcha"}
    [] sel = "#hcaptcha" -> {"captcha", "hcaptcha"}
    [] sel = "[data-hcaptcha-sitekey]" -> {"captcha", "hcaptcha"}
    [] sel = "iframe[src*=\"turnstile\"]" -> {"turnstile"}
    [] sel = ".cf-turnstile" -> {"turnstile"}
    [] sel = "#turnstile" -> {"turnstile"}
    [] sel = "[data-cf-turnstile-sitekey]" -> {"turnstile"}
    [] sel = "#cf-challenge-running" -> {"challenge"}
    [] sel = ".cf-browser-verification" -> {}
    [] sel = "#challenge-form" -> {"challenge"}
    [] sel = ".challenge-stage" -> {"challenge"}
    [] sel = ".cf-wrapper" -> {}
    [] sel = ".cf-error-overview" -> {}
    [] sel = "#cf-content" -> {}
    [] sel = ".cf-challenge-container" -> {"challenge"}
    [] sel = "[data-ray]" -> {}
    [] sel = ".challenge-wrapper" -> {"challenge"}
    [] sel = ".challenge-error-text" -> {"challenge"}
    [] sel = "#challenge-error-title" -> {"challenge"}
    [] sel = "[class*=\"captcha\"]" -> {"captcha"}
    [] sel = "[id*=\"captcha\"]" -> {"captcha"}
    [] sel = "[class*=\"challenge\"]" -> {"challenge"}
    [] sel = "[id*=\"challenge\"]" -> {"challenge"}
    [] sel = ".verification" -> {}
    [] sel = "#verification" -> {}
    [] sel = ".robot-check" -> {}
    [] sel = ".security-check" -> {}
    [] sel = ".bot-detection" -> {}
    [] sel = ".anti-bot" -> {}
    [] OTHER -> {}

Urls ==
  {"https://visas-de.tlscontact.com/visa/gb/gbLON2de/home",
   "https://visas-de.tlscontact.com/appointment/gb/gbLON2de/2612345",
   "https://visas-de.tlscontact.com/cdn-cgi/challenge-platform/h/b/orchestrate",
   "https://visas-de.tlscontact.com/verify"}

\* currentUrl.includes(part), for the fixtures' URLs.
UrlIncludes(url, part) ==
  CASE url = "https://visas-de.tlscontact.com/visa/gb/gbLON2de/home" ->
         part \in {"tlscontact.com/visa/gb/gbLON2de/home"}
    [] url = "https://visas-de.tlscontact.com/appointment/gb/gbLON2de/2612345" ->
         part \in {}
    [] url = "https://visas-de.tlscontact.com/cdn-cgi/challenge-platform/h/b/orchestrate" ->
         part \in {"cdn-cgi/challenge-platform", "challenge"}
    [] url = "https://visas-de.tlscontact.com/verify" ->
         part \in {"verify"}
    [] OTHER -> FALSE

Titles == {"", "Just a moment...", "TLScontact - Book your appointment"}

\* pageTitle.includes(part): case-sensitive.
TitleIncludes(title, part) ==
  CASE title = "" -> part \in {}
    [] title = "Just a moment..." -> part \in {"Just a moment"}
    [] title = "TLScontact - Book your appointment" -> part \in {}
    [] OTHER -> FALSE

Texts == {"", "Ray ID: 7d1f", "Book your appointment"}

\* The captchaKeywords that occur in text.toLowerCase().
TextKeywords(text) ==
  CASE text = "" -> {}
    [] text = "Ray ID: 7d1f" -> {"ray id"}
    [] text = "Book your appointment" -> {}
    [] OTHER -> {}

\* The captchaKeywords that occur in the lower-cased title element.
TitleKeywords(title) ==
  CASE title = "Just a moment..." -> {"just a moment"}
    [] OTHER -> {}

BodyLengths == {0, 99, 100}

\* Which puppeteer calls reject during one detection.
NoFault ==
  [select |-> FALSE, title |-> FALSE, content |-> FALSE, meta |-> FALSE, body |-> FALSE]

DetectFaults ==
  { NoFault,
    [NoFault EXCEPT !.select = TRUE],
    [NoFault EXCEPT !.title = TRUE],
    [NoFault EXCEPT !.content = TRUE],
    [NoFault EXCEPT !.meta = TRUE],
    [NoFault EXCEPT !.body = TRUE],
    [select |-> TRUE, title |-> TRUE, content |-> TRUE, meta |-> TRUE, body |-> TRUE] }

Pages ==
  [marker : {None} \cup {Some(sel) : sel \in AllSelectors},
   url : Urls, title : Titles, text : Texts,
   metaRefresh : BOOLEAN, bodyLength : BodyLengths]

\* The selectors in the order the two nested loops try them.
RECURSIVE SelectorsFrom(_)
SelectorsFrom(i) ==
  IF i > Len(SelectorTypes) THEN <<>>
  ELSE [j \in 1..Len(captchaSelectors[SelectorTypes[i]]) |->
          [type |-> SelectorTypes[i], selector |-> captchaSelectors[SelectorTypes[i]][j]]]
       \o SelectorsFrom(i + 1)

SelectorList == SelectorsFrom(1)

\* await page.$(selector) finds the fixture's marker element.  The mutant
\* finds nothing.
Found_Never(pg, selector) == FALSE

Found(pg, selector) == pg.marker = Some(selector)

\* The first entry of list, in order, for which test holds (the loop returns
\* at it), or None.
FirstIn(list, test(_)) ==
  LET hits == {i \in 1..Len(list) : test(list[i])}
  IN IF hits = {} THEN None
     ELSE Some(list[CHOOSE i \in hits : \A j \in hits : i <= j])

\* page.content().toLowerCase() holds the keyword.
ContentIncludes(pg, keyword) ==
  keyword \in (MarkupKeywords(IF IsSome(pg.marker) THEN Val(pg.marker) ELSE "")
                 \cup TitleKeywords(pg.title) \cup TextKeywords(pg.text))

HomePath == "tlscontact.com/visa/gb/gbLON2de/home"

Detection(hasCaptcha, type) == [hasCaptcha |-> hasCaptcha, type |-> type]

\* detectCaptcha(page) with the puppeteer calls named in f rejecting; every
\* rejection is caught and the scan goes on.
DetectCaptchaOf(pg, f) ==
  LET hit(e) == ~f.select /\ Found(pg, e.selector)
      element == FirstIn(SelectorList, hit)
      currentUrl == pg.url
      pageTitle == IF f.title THEN "" ELSE pg.title
      word(k) == ~f.content /\ ContentIncludes(pg, k)
      keyword == FirstIn(captchaKeywords, word)
      bodyLength == IF f.body THEN 0 ELSE pg.bodyLength
  IN IF IsSome(element)
       THEN Detection(TRUE, <<Val(element).type, Val(element).selector>>)
     ELSE IF \/ UrlIncludes(currentUrl, "cdn-cgi/challenge-platform")
             \/ UrlIncludes(currentUrl, "__cf_chl_")
             \/ TitleIncludes(pageTitle, "Just a moment")
             \/ TitleIncludes(pageTitle, "Checking your browser")
             \/ TitleIncludes(pageTitle, "DDoS protection")
             \/ TitleIncludes(pageTitle, "Cloudflare")
       THEN Detection(TRUE, <<"cloudflare-challenge">>)
     ELSE IF IsSome(keyword)
       THEN Detection(TRUE, <<"keyword", Val(keyword)>>)
     ELSE IF \/ UrlIncludes(currentUrl, "challenge")
             \/ UrlIncludes(currentUrl, "verify")
             \/ UrlIncludes(currentUrl, "captcha")
             \/ UrlIncludes(currentUrl, "cf-")
             \/ UrlIncludes(currentUrl, "bot-check")
             \/ UrlIncludes(currentUrl, "security-check")
       THEN Detection(TRUE, <<"url-based">>)
     ELSE IF ~f.meta /\ pg.metaRefresh
       THEN Detection(TRUE, <<"meta-refresh">>)
     ELSE IF bodyLength < 100 /\ ~UrlIncludes(currentUrl, HomePath)
       THEN Detection(TRUE, <<"minimal-content">>)
     ELSE Detection(FALSE, <<"none">>)

InitDetect ==
  /\ detInput = None
  /\ detResult = Detection(FALSE, <<"none">>)

DetectRest == InitDetect

\* One call of detectCaptcha on a page.
DetectCaptcha ==
  /\ ~IsSome(detInput)
  /\ \E pg \in Pages, f \in DetectFaults :
       /\ detInput' = Some([page |-> pg, faults |-> f])
       /\ detResult' = DetectCaptchaOf(pg, f)
  /\ UNCHANGED notDetect

NextDetect == DetectCaptcha

(***************************************************************************)
(* scraper.ts scrapeTLSContact and the main loop of index.ts that calls    *)
(* it: the booking flow from the landing page to the availability poller.  *)
(* The page answers each lookup (found or not) and each navigation wait    *)
(* (arrived or timed out); element clicks and typing themselves succeed.   *)
(* Each step of the flow is one action; flowLog lists what the call did to *)
(* the page.                                                               *)
(***************************************************************************)
MaxScrapes == 2

maxRetries == 3

\* The third argument of scrapeTLSContact at the main loop's call
\* scrapeTLSContact(session.page, session.sessionInfo): not passed, so the
\* parameter takes its default.
ResumeMonitoringArg(sessionCount) == FALSE

\* How a wait for navigation after a click can end.
NavOutcomes == {"arrived", "timeout"}

\* Which of the waits after a click carry .catch(() => ...).
NavigationCaught ==
  [login |-> FALSE, submit |-> FALSE, myApplication |-> TRUE,
   select |-> TRUE, continue |-> TRUE]

\* await page.waitForNavigation(...) after the click named by site: the
\* flow goes on, or the rejection leaves scrapeTLSContact.
WaitForNavigationOf(site, nav) ==
  IF nav = "timeout" /\ ~NavigationCaught[site] THEN "throw" ELSE "continue"

\* The head of scrapeTLSContact: with resumeMonitoring the booking page is
\* opened and probed for the markers of a logged-in session; every other
\* case goes to the landing page.
ResumeAttemptOf(resumeMonitoring, gotoOk, isLoggedIn) ==
  IF ~resumeMonitoring THEN [pc |-> "navigate", log |-> <<>>, resumed |-> FALSE]
  ELSE IF ~gotoOk
         THEN [pc |-> "navigate", log |-> <<"goto booking failed">>, resumed |-> FALSE]
  ELSE IF isLoggedIn
         THEN [pc |-> "monitor", log |-> <<"goto booking">>, resumed |-> TRUE]
  ELSE [pc |-> "navigate", log |-> <<"goto booking">>, resumed |-> FALSE]

\* The lookup treating the "My application" element as a login link.
LoginBranchOf_AlwaysLogin(loginButton, myApplicationDiv) ==
  IF loginButton \/ myApplicationDiv THEN "login click" ELSE "manual login"

\* Where the login-link lookup sends the flow.
LoginBranchOf(loginButton, myApplicationDiv) ==
  IF loginButton THEN "login click"
  ELSE IF myApplicationDiv THEN "my application"
  ELSE "manual login"

InitFlow ==
  /\ flow = [pc |-> "loop", sessionCount |-> 0, browser |-> 0, onPage |-> 0,
             authed |-> FALSE, attempt |-> 0, resumed |-> FALSE,
             threw |-> "none", prior |-> "none", priorPage |-> 0,
             found |-> [login |-> FALSE, myApplication |-> FALSE]]
  /\ flowLog = <<>>

FlowRest == InitFlow

\* One turn of the main loop up to and into scrapeTLSContact: the current
\* session is taken (a browser is launched when there is none), and the
\* call starts on that session's page.  authed says whether the cookies
\* the session was restored with are still those of a logged-in user.
MainStartScrape ==
  /\ flow.pc = "loop"
  /\ flow.sessionCount < MaxScrapes
  /\ \E authed \in BOOLEAN, gotoOk \in BOOLEAN :
       LET browser == IF flow.browser = 0 THEN 1 ELSE flow.browser
           head == ResumeAttemptOf(ResumeMonitoringArg(flow.sessionCount + 1),
                                   gotoOk, authed)
       IN /\ (~ResumeMonitoringArg(flow.sessionCount + 1) => gotoOk)
          /\ flow' = [flow EXCEPT !.pc = head.pc,
                                  !.sessionCount = @ + 1,
                                  !.browser = browser,
                                  !.onPage = browser,
                                  !.authed = authed,
                                  !.attempt = 0,
                                  !.resumed = head.resumed,
                                  !.prior = flow.threw,
                                  !.priorPage = flow.onPage,
                                  !.threw = "none",
                                  !.found = [login |-> FALSE, myApplication |-> FALSE]]
          /\ flowLog' = head.log
  /\ UNCHANGED notFlow

\* One attempt of page.goto(tlsURL); after the third failure the operator
\* is asked to open the page by hand and the flow goes on.
Navigate ==
  /\ flow.pc = "navigate"
  /\ \E ok \in BOOLEAN :
       LET attempt == flow.attempt + 1
       IN /\ flow' = [flow EXCEPT !.attempt = attempt,
                                  !.resumed = FALSE,
                                  !.pc = IF ok \/ attempt = maxRetries
                                         THEN "captcha" ELSE "navigate"]
          /\ flowLog' = IF ok THEN Append(flowLog, "goto landing")
                        ELSE IF attempt = maxRetries THEN Append(flowLog, "manual")
                        ELSE flowLog
  /\ UNCHANGED notFlow

\* handleCaptchaLoop returns, or its exception leaves scrapeTLSContact.
FlowCaptcha ==
  /\ flow.pc = "captcha"
  /\ \E threw \in BOOLEAN :
       flow' = [flow EXCEPT !.pc = IF threw THEN "thrown" ELSE "login lookup",
                            !.threw = IF threw THEN "captcha" ELSE "none"]
  /\ UNCHANGED flowLog
  /\ UNCHANGED notFlow

\* The login link is looked up by its selectors and, when none matches,
\* the "My application" element by its selectors and fallbacks.
LoginLookup ==
  /\ flow.pc = "login lookup"
  /\ \E loginButton \in BOOLEAN, myApplicationDiv \in BOOLEAN :
       /\ (myApplicationDiv => flow.authed /\ ~loginButton)
       /\ flow' = [flow EXCEPT !.pc = LoginBranchOf(loginButton, myApplicationDiv),
                               !.found = [login |-> loginButton,
                                          myApplication |-> myApplicationDiv]]
  /\ UNCHANGED flowLog
  /\ UNCHANGED notFlow

\* "My application" is clicked and the wait for navigation is caught.
MyApplicationClick ==
  /\ flow.pc = "my application"
  /\ \E nav \in NavOutcomes :
       LET next == WaitForNavigationOf("myApplication", nav)
       IN /\ flow' = [flow EXCEPT !.pc = IF next = "throw" THEN "thrown" ELSE "select",
                                  !.threw = IF next = "throw" THEN "navigation" ELSE "none"]
          /\ flowLog' = flowLog \o <<"click my application", nav>>
  /\ UNCHANGED notFlow

\* Neither element was found: the operator logs in by hand.
ManualLogin ==
  /\ flow.pc = "manual login"
  /\ flow' = [flow EXCEPT !.pc = "select"]
  /\ flowLog' = Append(flowLog, "manual")
  /\ UNCHANGED notFlow

\* The login link is clicked and the navigation awaited.
LoginClick ==
  /\ flow.pc = "login click"
  /\ \E nav \in NavOutcomes :
       LET next == WaitForNavigationOf("login", nav)
       IN /\ flow' = [flow EXCEPT !.pc = IF next = "throw" THEN "thrown" ELSE "username",
                                  !.threw = IF next = "throw" THEN "navigation" ELSE "none"]
          /\ flowLog' = flowLog \o <<"click login", nav>>
  /\ UNCHANGED notFlow

\* The username field: typed into when found, left to the operator otherwise.
Username ==
  /\ flow.pc = "username"
  /\ \E usernameInput \in BOOLEAN :
       flowLog' = Append(flowLog, IF usernameInput THEN "type username" ELSE "manual")
  /\ flow' = [flow EXCEPT !.pc = "password"]
  /\ UNCHANGED notFlow

\* The password field, likewise.
Password ==
  /\ flow.pc = "password"
  /\ \E passwordInput \in BOOLEAN :
       flowLog' = Append(flowLog, IF passwordInput THEN "type password" ELSE "manual")
  /\ flow' = [flow EXCEPT !.pc = "submit"]
  /\ UNCHANGED notFlow

\* The submit button: clicked and the navigation awaited when found.
Submit ==
  /\ flow.pc = "submit"
  /\ \E submitButton \in BOOLEAN, nav \in NavOutcomes :
       LET next == IF submitButton THEN WaitForNavigationOf("submit", nav)
                   ELSE "continue"
       IN /\ (~submitButton => nav = "arrived")
          /\ flow' = [flow EXCEPT !.pc = IF next = "throw" THEN "thrown" ELSE "select",
                                  !.threw = IF next = "throw" THEN "navigation" ELSE "none"]
          /\ flowLog' = IF submitButton THEN flowLog \o <<"click submit", nav>>
                        ELSE Append(flowLog, "manual")
  /\ UNCHANGED notFlow

\* Group selection: the Select button is clicked when found and the wait
\* for navigation is caught.
Select ==
  /\ flow.pc = "select"
  /\ \E selectButton \in BOOLEAN, nav \in NavOutcomes :
       LET next == IF selectButton THEN WaitForNavigationOf("select", nav)
                   ELSE "continue"
       IN /\ (~selectButton => nav = "arrived")
          /\ flow' = [flow EXCEPT !.pc = IF next = "throw" THEN "thrown" ELSE "continue",
                                  !.threw = IF next = "throw" THEN "navigation" ELSE "none"]
          /\ flowLog' = IF selectButton THEN flowLog \o <<"click select", nav>>
                        ELSE Append(flowLog, "manual")
  /\ UNCHANGED notFlow

\* The Continue button, likewise.
Continue ==
  /\ flow.pc = "continue"
  /\ \E continueButton \in BOOLEAN, nav \in NavOutcomes :
       LET next == IF continueButton THEN WaitForNavigationOf("continue", nav)
                   ELSE "continue"
       IN /\ (~continueButton => nav = "arrived")
          /\ flow' = [flow EXCEPT !.pc = IF next = "throw" THEN "thrown" ELSE "monitor",
                                  !.threw = IF next = "throw" THEN "navigation" ELSE "none"]
          /\ flowLog' = IF continueButton THEN flowLog \o <<"click continue", nav>>
                        ELSE Append(flowLog, "manual")
  /\ UNCHANGED notFlow

\* monitorAppointments returns when a slot is found and throws when the
\* session is lost.  On the resume path the call sits inside the try block,
\* so its exception falls back to the full flow.
Monitor ==
  /\ flow.pc = "monitor"
  /\ \E invalidated \in BOOLEAN :
       /\ flow' = [flow EXCEPT
            !.pc = IF ~invalidated THEN "returned"
                   ELSE IF flow.resumed THEN "navigate" ELSE "thrown",
            !.threw = IF invalidated /\ ~flow.resumed THEN "session" ELSE "none"]
       /\ flowLog' = Append(flowLog, "monitor")
  /\ UNCHANGED notFlow

\* The main loop's catch: the browser is restarted; a failed restart ends
\* the loop, otherwise the loop turns again after 30 seconds.
MainCatch ==
  /\ flow.pc = "thrown"
  /\ \E restartOk \in BOOLEAN :
       flow' = [flow EXCEPT !.pc = IF restartOk THEN "loop" ELSE "ended",
                            !.browser = IF restartOk THEN @ + 1 ELSE @]
  /\ UNCHANGED flowLog
  /\ UNCHANGED notFlow

\* The main loop after scrapeTLSContact returned: the operator stops the
\* run, has the browser restarted, or lets the loop turn again.
MainCompleted ==
  /\ flow.pc = "returned"
  /\ \E choice \in {"stop", "restart", ""} :
       flow' = [flow EXCEPT !.pc = IF choice = "stop" THEN "ended" ELSE "loop",
                            !.browser = IF choice = "restart" THEN @ + 1 ELSE @]
  /\ UNCHANGED flowLog
  /\ UNCHANGED notFlow

NextFlow ==
  \/ MainStartScrape
  \/ Navigate
  \/ FlowCaptcha
  \/ LoginLookup
  \/ MyApplicationClick
  \/ ManualLogin
  \/ LoginClick
  \/ Username
  \/ Password
  \/ Submit
  \/ Select
  \/ Continue
  \/ Monitor
  \/ MainCatch
  \/ MainCompleted

(***************************************************************************)
(* Specifications: one per component.                                      *)
(***************************************************************************)
BrowserRest ==
  /\ InitBrowserVars
  /\ proxyHost = FALSE

InitSpecBrowser ==
  InitBrowserVars /\ CaptchaRest /\ RateRest /\ PollerRest /\ IPRest /\ LifecycleRest
    /\ SolverRest /\ DetectRest /\ FlowRest

SpecBrowser ==
  InitSpecBrowser /\ [][NextBrowser]_vars

InitSpecCaptcha ==
  InitCaptcha /\ BrowserRest /\ RateRest /\ PollerRest /\ IPRest /\ LifecycleRest
    /\ SolverRest /\ DetectRest /\ FlowRest

SpecCaptcha ==
  InitSpecCaptcha /\ [][NextCaptcha]_vars

InitSpecRate ==
  InitRate /\ BrowserRest /\ CaptchaRest /\ PollerRest /\ IPRest /\ LifecycleRest
    /\ SolverRest /\ DetectRest /\ FlowRest

SpecRate ==
  InitSpecRate /\ [][NextRate]_vars

InitSpecPoller ==
  InitPoller /\ BrowserRest /\ CaptchaRest /\ RateRest /\ IPRest /\ LifecycleRest
    /\ SolverRest /\ DetectRest /\ FlowRest

SpecPoller ==
  InitSpecPoller /\ [][NextPoller]_vars

InitSpecIP ==
  InitIP /\ BrowserRest /\ CaptchaRest /\ RateRest /\ PollerRest /\ LifecycleRest
    /\ SolverRest /\ DetectRest /\ FlowRest

SpecIP ==
  InitSpecIP /\ [][NextIP]_vars

InitSpecLifecycle ==
  InitLifecycle /\ BrowserRest /\ CaptchaRest /\ RateRest /\ PollerRest /\ IPRest
    /\ SolverRest /\ DetectRest /\ FlowRest

SpecLifecycle ==
  InitSpecLifecycle /\ [][NextLifecycle]_vars

\* A step of the main task other than the end of scrapeTLSContact: a
\* manager call, a timer or a prompt it awaits settles.
MainSettles ==
  \/ GateAnswer
  \/ SaveReturns("main")
  \/ CloseReturns("main")
  \/ LaunchReturns("main")
  \/ LaunchFails("main")
  \/ SetupReturns("main")
  \/ LoopSaveReturns
  \/ BookingReturns
  \/ PromptAnswer
  \/ WaitReturns

\* scrapeTLSContact ends on a page whose browser is closed: the next probe
\* of monitorAppointments rejects.
ScrapeInvalidated ==
  ScrapeReturns /\ BrowserClosed(chrome, tasks["main"].ref)

\* A step of the restartBrowser the watchdog callback awaits.
WatchdogSettles ==
  \/ SaveReturns("watchdog")
  \/ CloseReturns("watchdog")
  \/ LaunchReturns("watchdog")
  \/ LaunchFails("watchdog")
  \/ SetupReturns("watchdog")

\* The main loop and the watchdog on their own: no signal arrives and the
\* memory sampler, whose samples only feed shouldRestart as the age of the
\* session does, stays out.
NextMainLoop ==
  \/ GateAnswer
  \/ SaveReturnsAny
  \/ CloseReturnsAny
  \/ LaunchReturnsAny
  \/ LaunchFailsAny
  \/ SetupReturnsAny
  \/ LoopSaveReturns
  \/ ScrapeReturns
  \/ BookingReturns
  \/ PromptAnswer
  \/ WaitReturns
  \/ SessionAges
  \/ WatchdogFires

SpecMainLoop ==
  InitSpecLifecycle /\ [][NextMainLoop]_vars

\* The run in which time passes, the watchdog's interval fires, the
\* operator answers, and every manager call and timer that a task awaits
\* settles. A scrapeTLSContact on a live page is not made to end:
\* monitorAppointments polls until it finds appointments or an error leaves
\* it.
SpecMainLoopFair ==
  /\ SpecMainLoop
  /\ WF_vars(MainSettles)
  /\ WF_vars(ScrapeInvalidated)
  /\ WF_vars(WatchdogSettles)
  /\ WF_vars(SessionAges)
  /\ WF_vars(WatchdogFires)

InitSpecSolver ==
  InitSolver /\ BrowserRest /\ CaptchaRest /\ RateRest /\ PollerRest /\ IPRest
    /\ LifecycleRest /\ DetectRest /\ FlowRest

SpecSolver ==
  InitSpecSolver /\ [][NextSolver]_vars

InitSpecDetect ==
  InitDetect /\ BrowserRest /\ CaptchaRest /\ RateRest /\ PollerRest /\ IPRest
    /\ LifecycleRest /\ SolverRest /\ FlowRest

SpecDetect ==
  InitSpecDetect /\ [][NextDetect]_vars

InitSpecFlow ==
  InitFlow /\ BrowserRest /\ CaptchaRest /\ RateRest /\ PollerRest /\ IPRest
    /\ LifecycleRest /\ SolverRest /\ DetectRest

SpecFlow ==
  InitSpecFlow /\ [][NextFlow]_vars

(***************************************************************************)
(* Properties of the browser lifecycle manager.                            *)
(***************************************************************************)
RestartObserved == bm.op \in {"restart", "watchdog"} /\ IsSome(bm.replaced)

\* C2: a restartBrowser call that replaces a session returns a session whose
\* restartCount is the replaced session's restartCount plus 1.
C2_RestartCountIncrements ==
  (RestartObserved /\ ~bm.threw /\ IsSome(session))
    => Val(session).restartCount = Val(bm.replaced).restartCount + 1

\* C3: restartBrowser launches the new browser with useProxy equal to the
\* proxyUsed flag of the session it replaces.
C3_RestartKeepsProxyChoice ==
  RestartObserved => bm.useProxy = Some(Val(bm.replaced).proxyUsed)

\* C4: with a live session shouldRestart() answers true when the session is
\* older than 45 minutes whatever the memory estimate, true when the memory
\* estimate is above the ceiling whatever the age, and false when both are at
\* or under their ceilings.
C4_ShouldRestartPolicy ==
  (IsSome(bm.decision) /\ Val(bm.decision).live) =>
    LET d == Val(bm.decision)
    IN /\ (d.age > 45 * 60 * 1000 => d.result)
       /\ (d.memory > memoryThreshold => d.result)
       /\ ((d.age <= 45 * 60 * 1000 /\ d.memory <= memoryThreshold) => ~d.result)

\* A shouldRestart() call on a live session that is too old but whose memory
\* estimate is at the ceiling, not above it.
C4_Witness ==
  /\ IsSome(bm.decision)
  /\ Val(bm.decision).live
  /\ Val(bm.decision).age > 45 * 60 * 1000
  /\ Val(bm.decision).memory = memoryThreshold
  /\ Val(bm.decision).result

\* C5: after a save that read the storage of a page allowing storage access,
\* loadSessionData returns the saved cookies, storage snapshots and user agent
\* while the saved timestamp is at most 24 hours old, and null once it is
\* older.
C5_SaveLoadRoundTrip ==
  (bm.op = "load" /\ IsSome(lastSave) /\ Val(lastSave).storageRead) =>
    LET saved == Val(lastSave)
    IN IF now - saved.time <= 24 * 60 * 60 * 1000
       THEN /\ IsSome(bm.loaded)
            /\ Val(bm.loaded).cookies = saved.cookies
            /\ Val(bm.loaded).localStorage = saved.localStorage
            /\ Val(bm.loaded).sessionStorage = saved.sessionStorage
            /\ Val(bm.loaded).userAgent = saved.userAgent
       ELSE bm.loaded = None

\* A load, exactly 24 hours after a save of a page with two cookies and
\* entries in both storage areas, that returns the state.
C5_Witness ==
  /\ bm.op = "load"
  /\ IsSome(lastSave)
  /\ Val(lastSave).storageRead
  /\ Len(Val(lastSave).cookies) = 2
  /\ Val(lastSave).localStorage # EmptyObj
  /\ Val(lastSave).sessionStorage # EmptyObj
  /\ now - Val(lastSave).time = 24 * 60 * 60 * 1000
  /\ IsSome(bm.loaded)

\* C11: cleanup() saves before it closes, and when it returns the session is
\* gone and both timers are cleared, whether or not the save or the browser
\* close failed and whether or not a session was current: a cleanup of a
\* live session whose save steps all succeed leaves the file written at this
\* call.
C11_CleanupSavesThenClears ==
  bm.op = "cleanup" =>
    /\ session = None
    /\ ~watchdogInterval
    /\ ~memoryCheckInterval
    /\ (IsSome(bm.replaced) /\ bm.saveFail = "none") =>
         /\ IsSome(sessionFile)
         /\ Val(sessionFile).timestamp = now
         /\ IsSome(lastSave) /\ Val(lastSave).time = now

\* A cleanup of a live session with running timers whose browser close
\* fails, later than any earlier save.
C11_Witness ==
  /\ bm.op = "cleanup"
  /\ IsSome(bm.replaced)
  /\ bm.timers
  /\ bm.closeFailed
  /\ now > 0
  /\ IsSome(sessionFile) /\ Val(sessionFile).timestamp = now
  /\ session = None /\ ~watchdogInterval /\ ~memoryCheckInterval

CooldownMs == 15 * 60 * 1000

\* A clean run that read a valid stored timestamp.
RunAfterValid == rlObs.ran /\ IsSome(rlObs.before)

\* The remaining cooldown of a run, in milliseconds.
RemainingMs == Val(rlObs.before) + CooldownMs - rlObs.at

NonEmptySlot(slot) ==
  \/ slot.children > 0
  \/ \E i \in 1..Len(slot.innerHTML) : slot.innerHTML[i] \notin Whitespace

\* The month inspections of the last cycle whose page calls all succeeded.
Inspections ==
  {pollObs.pass.inspections[i] : i \in 1..Len(pollObs.pass.inspections)}

\* C7: checkAppointmentAvailability has three outcomes the caller can tell
\* apart: available=true for a page with a non-empty slot container,
\* available=false for a page whose slot containers are all empty, and for a
\* page with no slot container an outcome that is neither of the two.
C7_ThreeOutcomes ==
  \A insp \in Inspections :
    ~insp.threw =>
      /\ (\E i \in 1..Len(insp.slots) : NonEmptySlot(insp.slots[i]))
           => insp.returned = TRUE
      /\ (Len(insp.slots) > 0 /\ \A i \in 1..Len(insp.slots) : ~NonEmptySlot(insp.slots[i]))
           => insp.returned = FALSE
      /\ Len(insp.slots) = 0 => insp.returned \notin {TRUE, FALSE}

\* C8: one pass of checkAllMonthsForAppointments inspects at most 3 months
\* and attempts at most 2 next-month advances; after 2 successful advances
\* the pass attempts no third one and ends without an exception, reporting
\* the window exhausted (false) unless the third month holds a slot.
C8_MonthWindow ==
  pollObs.passRan =>
    /\ pollObs.pass.monthsChecked <= 3
    /\ Len(pollObs.pass.inspections) <= 3
    /\ pollObs.pass.attempts <= 2
    /\ pollObs.pass.advances <= pollObs.pass.attempts
    /\ pollObs.pass.cursor <= pollObs.from + 2
    /\ pollObs.pass.advances = 2 =>
         /\ pollObs.pass.attempts = 2
         /\ pollObs.pass.threw = None
         /\ pollObs.pass.exit \in {"found", "checked all"}
         /\ (pollObs.pass.exit = "checked all" <=>
               \A i \in 1..3 : ~pollObs.pass.inspections[i].returned)
         /\ (pollObs.pass.exit = "checked all" => pollObs.pass.result = Some(FALSE))

\* A pass over a calendar of four months without slots advances twice and
\* stops at the third month although a next-month button is there.
C8_Witness ==
  /\ pollObs.passRan
  /\ Len(calendar) = 4
  /\ pollObs.pass.advances = 2
  /\ pollObs.pass.exit = "checked all"
  /\ pollObs.pass.cursor = 3
  /\ calendar[3].next = "available"

\* The markers of a torn-down page in an error message.
TornDown(message) ==
  \/ Includes(message, <<"Protocol", "error">>)
  \/ Includes(message, <<"Target", "closed">>)
  \/ Includes(message, <<"Execution", "context", "was", "destroyed">>)

\* C10: a cycle whose page probe fails, or in which an error with a
\* torn-down-page message reaches the monitoring loop, ends with
\* monitorAppointments throwing to its caller without the 30 second wait;
\* any other error reaching the loop is followed by the 30 second wait and
\* the loop goes on.
C10_InvalidationPropagates ==
  pollObs.ran =>
    /\ pollObs.fault.kind = "probe" =>
         /\ monPc = "threw"
         /\ pollObs.thrown = Some(PageInvalidated)
         /\ pollObs.waited = "none"
         /\ ~pollObs.passRan
    /\ (IsSome(pollObs.pass.threw) /\ TornDown(Val(pollObs.pass.threw))) =>
         /\ monPc = "threw"
         /\ pollObs.thrown = pollObs.pass.threw
         /\ pollObs.waited = "none"
    /\ (IsSome(pollObs.pass.threw) /\ ~TornDown(Val(pollObs.pass.threw))) =>
         /\ monPc = "running"
         /\ pollObs.thrown = None
         /\ pollObs.waited = "30 seconds"

\* The click of the first advance fails with the bare 'Target closed' message
\* and the error leaves monitorAppointments.
C10_Witness ==
  /\ pollObs.ran
  /\ pollObs.fault.kind = "nav"
  /\ pollObs.pass.threw = Some(TargetClosed)
  /\ pollObs.pass.attempts = 1
  /\ monPc = "threw"

\* A navigation timeout of the reload is retried inside the loop.
C10_WitnessRetry ==
  /\ pollObs.ran
  /\ pollObs.fault.kind = "reload"
  /\ pollObs.pass.threw = Some(NavigationTimeout)
  /\ pollObs.waited = "30 seconds"
  /\ monPc = "running"

(***************************************************************************)
(* Properties of the IP health check.                                      *)
(***************************************************************************)
\* The last check got its answers from all three lookups.
Answered ==
  /\ IsSome(ipInput)
  /\ Val(ipInput).ipinfo.fetch = "ok"
  /\ Val(ipInput).proxy.fetch = "ok" /\ Val(ipInput).proxy.status = "success"
  /\ Val(ipInput).reputation.fetch = "ok" /\ Val(ipInput).reputation.status = "success"

\* Every signal but the ISP name is clean: no proxy or hosting flag, no
\* mobile carrier, no cloud ASN, a known country that fits the application.
OthersClean ==
  /\ Answered
  /\ ~Val(ipInput).proxy.proxy /\ ~Val(ipInput).proxy.hosting
  /\ ~Val(ipInput).reputation.mobile
  /\ Val(ipInput).reputation.as = CleanASN
  /\ Val(ipInput).ipinfo.country = <<"G", "B">>

\* C9: the recommendation is UNSAFE when the proxy signal is true, SAFE when
\* every signal is clean, and CAUTION when the only signal is an ISP name
\* matching a hosting pattern.
C9_Recommendation ==
  /\ (Answered /\ Val(ipInput).proxy.proxy) => ipResult.recommendation = "UNSAFE"
  /\ (OthersClean /\ Val(ipInput).ipinfo.org = CleanISP)
       => ipResult.recommendation = "SAFE"
  /\ (OthersClean /\ Val(ipInput).ipinfo.org = HostingISP)
       => ipResult.recommendation = "CAUTION"

(***************************************************************************)
(* Properties of the run as a whole.                                       *)
(***************************************************************************)
ShutDown ==
  \/ run.exited = "signal"
  \/ (run.stop /\ tasks["main"].pc = "finished")

\* C12: when the process exits on SIGINT or SIGTERM, or the run ends on the
\* operator's "stop", every browser launched in the run has been saved and
\* then closed: none is still open, none was closed without a save.
C12_ShutdownSavesThenCloses ==
  ShutDown => \A id \in BrowserIds : chrome[id] \in {"none", "closed"}

\* C13: a watchdog or memory-sampler callback that runs, or resumes, while
\* the session is torn down or being replaced does nothing: no error, no
\* restart of its own, no write to a null session.
C13_TickDuringTeardownIsNoOp ==
  tickObs.during => tickObs.effect \in {"noop", "write"}

\* C18: after the operator answers "manual" to a recommendation that is not
\* SAFE, the run goes on into the scraping loop.
C18_ManualKeepsRunning ==
  (run.gate.decision # "none" /\ run.gate.recommendation # "SAFE"
     /\ run.gate.answer = "manual")
    => run.sessionCount > 0

(***************************************************************************)
(* Properties of launchBrowser.                                            *)
(***************************************************************************)
\* C14: launchBrowser makes one launch attempt, carrying the proxy argument
\* when a proxy is requested and configured; it makes a second one, without
\* the proxy argument, exactly when a proxy was requested and the first
\* failed; the call throws exactly when its last attempt failed, so with
\* useProxy = false the single failure is propagated.
C14_LaunchAttempts ==
  bm.tries # <<>> =>
    LET useProxy == Val(bm.useProxy)
        n == Len(bm.tries)
    IN /\ n <= 2
       /\ bm.tries[1].proxyArg = (useProxy /\ proxyHost)
       /\ (n = 2) = (useProxy /\ ~bm.tries[1].ok)
       /\ n = 2 => ~bm.tries[2].proxyArg
       /\ bm.threw = ~bm.tries[n].ok

C14_Witness ==
  /\ bm.op = "launch" /\ bm.useProxy = Some(TRUE) /\ proxyHost
  /\ Len(bm.tries) = 2
  /\ bm.tries[1].proxyArg /\ ~bm.tries[1].ok
  /\ ~bm.tries[2].proxyArg /\ bm.tries[2].ok
  /\ ~bm.threw /\ IsSome(session)

C14_WitnessNoProxy ==
  /\ bm.op = "launch" /\ bm.useProxy = Some(FALSE)
  /\ Len(bm.tries) = 1 /\ ~bm.tries[1].ok /\ bm.threw

\* A launch has just produced a session while a persisted state less than
\* 24 hours old was on disk.
RelaunchedOverFreshState ==
  /\ bm.tries # <<>> /\ ~bm.threw
  /\ IsSome(sessionFile) /\ now - Val(sessionFile).timestamp < maxAge

\* C20: a session launched while a persisted state less than 24 hours old
\* exists has the user agent stored in that state, and when it replaces a
\* session, the user agent of the session it replaces.
C20_StoredUserAgentWins ==
  RelaunchedOverFreshState =>
    /\ IsSome(session)
    /\ Val(session).sessionInfo.userAgent = Val(sessionFile).userAgent
    /\ IsSome(bm.replaced) =>
         Val(session).sessionInfo.userAgent = Val(bm.replaced).userAgent

C20_Witness ==
  /\ RelaunchedOverFreshState
  /\ bm.op = "restart" /\ IsSome(bm.replaced) /\ Val(bm.replaced).userAgent = "UA2"
  /\ Val(session).sessionInfo.userAgent = "UA2"
  /\ Val(session).startTime > 0

(***************************************************************************)
(* Properties of the challenge loop without a solving service.             *)
(***************************************************************************)
NoKeys == ~capKeys.two /\ ~capKeys.anti

\* C15: with neither API key configured, handleCaptchaLoop queries no
\* balance and never attempts automated solving, whatever the operator
\* types; no exit from the loop is due to automated solving.
C15_NoKeysNoAutomation ==
  NoKeys =>
    /\ ~capService
    /\ ~capObs.balance
    /\ capObs.autoCalls = 0
    /\ ~capObs.auto
    /\ capObs.exit # "auto"

C15_Witness ==
  /\ NoKeys /\ capPc = "returned"
  /\ capObs.detected /\ capObs.choice = "auto" /\ capObs.exit = "manual"
  /\ capObs.autoCalls = 0

(***************************************************************************)
(* Properties of the solving service.                                      *)
(***************************************************************************)
Other(provider) == IF provider = "twocaptcha" THEN "anticaptcha" ELSE "twocaptcha"

Configured(provider) ==
  IF provider = "twocaptcha" THEN svcConfig.two ELSE svcConfig.anti

\* C16: solveCaptcha calls the preferred provider when it is configured,
\* otherwise the first configured one (2Captcha before Anti-Captcha); with
\* none configured it calls no provider and returns the failure 'No captcha
\* service available'.
C16_ProviderSelection ==
  svcObs.ran =>
    IF ~svcConfig.two /\ ~svcConfig.anti
      THEN /\ svcObs.calls = <<>>
           /\ ~svcObs.result.success
           /\ svcObs.result.error = "No captcha service available"
      ELSE /\ svcObs.calls # <<>>
           /\ svcObs.calls[1] =
                IF svcConfig.preferred # "auto" /\ Configured(svcConfig.preferred)
                  THEN svcConfig.preferred
                  ELSE IF svcConfig.two THEN "twocaptcha" ELSE "anticaptcha"

C16_Witness ==
  /\ svcObs.ran
  /\ svcConfig = [two |-> TRUE, anti |-> TRUE, preferred |-> "anticaptcha"]
  /\ svcObs.calls[1] = "anticaptcha"

C16_WitnessNone ==
  /\ svcObs.ran /\ ~svcConfig.two /\ ~svcConfig.anti
  /\ svcObs.calls = <<>>
  /\ svcObs.result.error = "No captcha service available"

\* C19: with both providers configured, a solveCaptcha call whose first
\* provider call fails goes on to call the other provider.
C19_Failover ==
  (svcObs.ran /\ svcConfig.two /\ svcConfig.anti /\ svcObs.calls # <<>>
     /\ (Len(svcObs.calls) > 1 \/ ~svcObs.result.success))
    => \E i \in 2..Len(svcObs.calls) : svcObs.calls[i] = Other(svcObs.calls[1])

(***************************************************************************)
(* Properties of detectCaptcha.                                            *)
(***************************************************************************)
DetectedPage == Val(detInput).page

\* The check categories as properties of the page itself.
HasMarker == IsSome(DetectedPage.marker)

UrlOrTitleSignal ==
  \/ \E part \in {"cdn-cgi/challenge-platform", "__cf_chl_"} :
       UrlIncludes(DetectedPage.url, part)
  \/ \E part \in {"Just a moment", "Checking your browser", "DDoS protection",
                   "Cloudflare"} :
       TitleIncludes(DetectedPage.title, part)

KeywordSignal ==
  \E i \in 1..Len(captchaKeywords) : ContentIncludes(DetectedPage, captchaKeywords[i])

UrlPathSignal ==
  \E part \in {"challenge", "verify", "captcha", "cf-", "bot-check", "security-check"} :
    UrlIncludes(DetectedPage.url, part)

MinimalContent ==
  DetectedPage.bodyLength < 100 /\ ~UrlIncludes(DetectedPage.url, HomePath)

C17_WitnessClear ==
  /\ IsSome(detInput) /\ Val(detInput).faults = NoFault
  /\ ~HasMarker /\ DetectedPage.bodyLength = 100
  /\ detResult = Detection(FALSE, <<"none">>)

\* C21: the fraudScore of the result checkIPHealth returns lies within
\* 0..100, whatever the lookup services answered.
C21_FraudScoreInRange ==
  IsSome(ipInput) => ipResult.risks.fraudScore \in 0..100

\* A browser that is open and that the manager can no longer reach: it is not
\* the browser of the current session and no launchBrowser call is about to
\* install it.
Orphaned(id) ==
  /\ chrome[id] \in {"open", "saved"}
  /\ ~(IsSome(live.session) /\ Val(live.session).browser = id)
  /\ \A t \in Tasks : ~(tasks[t].pc = "page.setup" /\ tasks[t].ref = id)

\* C28: at every point of every interleaving of watchdog ticks, main-loop
\* restarts and cleanup, every browser that was launched and is not yet
\* closed is the browser of the current session (or is being installed by
\* the launch that opened it): no overlapping restart leaves a browser that
\* no session references.
C28_NoOrphanedBrowser ==
  Alive => \A id \in BrowserIds : ~Orphaned(id)

\* The session file as the last operation left it, parsed.
SavedFile == SessionDataFromJson(Val(sessionFile))

\* The last operation was a saveSessionData() on a live session that got as
\* far as fs.writeFile and whose write succeeded.
SaveWrote ==
  /\ bm.op = "save"
  /\ IsSome(session)
  /\ bm.saveFail \notin {"cookies", "write"}

\* C23: saveSessionData never raises; a save that writes the file writes the
\* page's cookies, and on a page whose probe reports both storage areas
\* inaccessible it writes them with empty localStorage and sessionStorage
\* snapshots.
C23_SaveDegradesGracefully ==
  /\ bm.op = "save" => ~bm.threw
  /\ SaveWrote =>
       /\ IsSome(sessionFile)
       /\ SavedFile.cookies = page.cookies
       /\ SavedFile.timestamp = now
       /\ access = NoAccess =>
            /\ SavedFile.localStorage = EmptyObj
            /\ SavedFile.sessionStorage = EmptyObj

\* A save on the interstitial page, which holds a localStorage item the
\* scripts cannot read: the file has its cookie and no storage.
C23_Witness ==
  /\ SaveWrote
  /\ access = NoAccess
  /\ page.local # <<>>
  /\ SavedFile.cookies = <<[name |-> "cf", value |-> "c1"]>>
  /\ SavedFile.localStorage = EmptyObj

\* C24: a restartBrowser() on a live session saves before it closes (a save
\* that does not fail leaves a file written at the time of the restart with
\* the replaced session's user agent), and whether or not the save fails
\* the old session is torn down and a launch is attempted: the manager holds
\* a session started by this restart, or none when the launch failed.
C24_RestartSavesThenRelaunches ==
  RestartObserved =>
    /\ bm.saveFail = "none" =>
         /\ IsSome(sessionFile)
         /\ SavedFile.timestamp = now
         /\ SavedFile.userAgent = Val(bm.replaced).userAgent
    /\ bm.tries # <<>>
    /\ bm.threw => ~IsSome(session) /\ ~watchdogInterval /\ ~memoryCheckInterval
    /\ ~bm.threw =>
         /\ IsSome(session)
         /\ Val(session).startTime = now
         /\ watchdogInterval /\ memoryCheckInterval

\* A restart whose save failed at fs.writeFile and whose launch succeeded,
\* later than the start of the session it replaced.
C24_Witness ==
  /\ RestartObserved
  /\ bm.saveFail = "write"
  /\ ~bm.threw
  /\ IsSome(session) /\ Val(session).startTime = now /\ now > 0

\* A restart whose save succeeded with no file there before the session.
C24_WitnessSaved ==
  /\ RestartObserved
  /\ bm.saveFail = "none"
  /\ IsSome(sessionFile) /\ SavedFile.timestamp = now /\ now > 0

\* The last loop iteration met one of the failures C26 is about: the
\* solving-service request failed, the token could not be submitted, a call
\* inside attemptAutomatedSolving threw, or a page query inside detectCaptcha
\* rejected.
FailureSeen ==
  /\ capPc \in {"loop", "returned", "thrown"}
  /\ capObs.fails # <<>> \/ capObs.detectErr

\* After the failure the iteration ran a detection pass again, or the loop
\* went back to its head, where the next pass starts with one.
DetectsAgain ==
  \/ capPc = "loop"
  \/ capObs.redetected
  \/ capObs.exit = "checkbox"

C26_WitnessError ==
  /\ capPc = "returned"
  /\ capObs.fails = <<"error">> /\ capObs.detectErr
  /\ capObs.exit = "manual"

\* The last pass inspected a month view that holds a non-empty slot and
\* reported it.
SlotFound ==
  \E insp \in Inspections :
    /\ insp.returned = TRUE
    /\ \E i \in 1..Len(insp.slots) : NonEmptySlot(insp.slots[i])

\* C27: monitorAppointments returns only after a pass that found a slot,
\* followed by the wait for the operator; it is left otherwise only by
\* throwing a session-invalidated error (the failed page probe, or an error
\* whose message marks a torn-down page); in every other case the loop goes
\* on.
C27_MonitorExits ==
  /\ pollObs.ran \/ monPc = "running"
  /\ monPc = "returned" =>
       /\ pollObs.passRan
       /\ pollObs.pass.result = Some(TRUE)
       /\ SlotFound
       /\ pollObs.waited = "operator"
       /\ pollObs.thrown = None
  /\ monPc = "threw" =>
       /\ IsSome(pollObs.thrown)
       /\ \/ pollObs.thrown = Some(PageInvalidated)
          \/ TornDown(Val(pollObs.thrown))
       /\ pollObs.waited = "none"
  /\ (pollObs.ran /\ pollObs.passRan /\ pollObs.pass.result = Some(FALSE)) =>
       /\ monPc = "running"
       /\ pollObs.waited = "next cycle"

\* A second cycle finds a slot after a first one that found none: the loop
\* kept cycling and then returned after the operator wait.
C27_Witness ==
  /\ cycles = 2
  /\ monPc = "returned"
  /\ SlotFound
  /\ pollObs.waited = "operator"

\* A cycle that found nothing leaves the loop running.
C27_WitnessCycling ==
  /\ pollObs.ran /\ pollObs.pass.result = Some(FALSE)
  /\ pollObs.waited = "next cycle" /\ monPc = "running"

(***************************************************************************)
(* Spacing of accepted clean runs.                                         *)
(***************************************************************************)
\* The latest clean run passed the rate-limit gate, and so far every run
\* that passed it wrote its timestamp.
AcceptedAndWritten ==
  /\ rlObs.ran
  /\ rlObs.result.canRun
  /\ rlObs.allWrote

C30_WitnessRejected ==
  /\ rlObs.ran
  /\ ~rlObs.result.canRun
  /\ rlObs.exit = "rate limit"
  /\ IsSome(rlObs.accepted)
  /\ rlObs.at - Val(rlObs.accepted) = CooldownMs - 1
  /\ rlFile = Some(ToISOString(Val(rlObs.accepted)))

(***************************************************************************)
(* Properties of the booking flow.                                         *)
(***************************************************************************)
LoginEvents == {"click login", "type username", "type password", "click submit"}

Logged(e) == \E i \in DOMAIN flowLog : flowLog[i] = e

\* The lookup matched no login link and found the "My application" element.
AlreadyLoggedIn ==
  /\ ~flow.found.login
  /\ flow.found.myApplication

\* C22: when no login link is matched and "My application" is found, the
\* login step is skipped: the call neither clicks the login link nor types
\* a username or password nor clicks a submit button, and what follows the
\* click on "My application" is group selection.
C22_LoginSkipped ==
  AlreadyLoggedIn =>
    /\ \A e \in LoginEvents : ~Logged(e)
    /\ flow.pc \notin {"login click", "username", "password", "submit", "manual login"}
    /\ flow.pc = "my application" \/ Logged("click my application")
    /\ \A i \in DOMAIN flowLog :
         flowLog[i] = "click my application" =>
           /\ flow.pc = "select" <=> i + 1 = Len(flowLog)
           /\ i + 2 <= Len(flowLog) => flowLog[i + 2] \in {"click select", "manual"}

\* An already logged-in session reaches the poller through "My
\* application", Select and Continue, with no navigation after the first.
C22_Witness ==
  /\ AlreadyLoggedIn
  /\ flow.pc = "returned"
  /\ flowLog = <<"goto landing", "click my application", "timeout",
                 "click select", "arrived", "click continue", "arrived",
                 "monitor">>

\* C25: a wait for navigation that times out after a click of the booking
\* flow never leaves scrapeTLSContact as an exception; the flow goes on.
C25_NavigationTimeoutProceeds ==
  ~(flow.pc = "thrown" /\ flow.threw = "navigation")

\* The waits after "My application", Select and Continue do go on after a
\* timeout: only the login link and the submit button are followed by a
\* bare wait.
TimeoutsThatRaise ==
  (flow.pc = "thrown" /\ flow.threw = "navigation") =>
    /\ flowLog[Len(flowLog)] = "timeout"
    /\ flowLog[Len(flowLog) - 1] \in {"click login", "click submit"}

\* The call in progress follows one that the poller left with a
\* session-invalidated error.
Rescraping ==
  /\ flow.prior = "session"
  /\ flow.pc \notin {"loop", "ended"}

\* After such an error the next call runs on the page of a new browser.
RescrapesOnNewPage ==
  Rescraping =>
    /\ flow.onPage = flow.browser
    /\ flow.onPage > flow.priorPage

\* C29: after the poller propagates a session-invalidated error the main
\* loop restarts the browser and scrapes again on the new session's page,
\* and with a still authenticated session the call takes the resume path:
\* it opens the booking page directly and redoes no part of the login flow.
C29_ResumesAfterRestart ==
  Rescraping =>
    /\ flow.onPage = flow.browser
    /\ flow.onPage > flow.priorPage
    /\ flow.authed =>
         /\ flowLog # <<>>
         /\ flowLog[1] = "goto booking"
         /\ ~Logged("goto landing")
         /\ \A e \in LoginEvents : ~Logged(e)

(***************************************************************************)
(* The operator menu of the challenge loop.                                *)
(***************************************************************************)
\* The last iteration reached the menu and the operator's action left the
\* challenge in place: one of the five actions that only act on the page, a
\* checkbox attempt that did not resolve it, or an automated retry that did
\* not clear it.
MenuLeftChallenge ==
  /\ capObs.menu
  /\ \/ capObs.choice \in {"refresh", "wait", "cookies", "stealth", "human"}
     \/ capObs.choice = "checkbox" /\ capObs.exit # "checkbox"
     \/ capObs.choice = "auto" /\ capObs.auto /\ capObs.exit # "auto"

\* The loop is back at its head for a new detection pass, or the attempts
\* are used up and the call has returned.
BackToDetection ==
  \/ capPc = "loop"
  \/ capPc = "returned" /\ capObs.exit = "while" /\ captchaAttempt = maxCaptchaAttempts

\* C31: after refresh, wait, cookies, stealth or human, after a checkbox
\* attempt that does not resolve the challenge and after an automated retry
\* that does not clear it, the loop goes back to a new detection pass
\* (within the attempt ceiling); skip ends the call at once, normally.
C31_MenuLoopsBack ==
  /\ MenuLeftChallenge => BackToDetection
  /\ capObs.menu /\ capObs.choice = "skip" =>
       capPc = "returned" /\ capObs.exit = "skip"

\* The attempt that just ended was the third or a later one and left the
\* challenge unresolved.
LateUnresolved ==
  /\ capObs.detected
  /\ captchaAttempt >= 3
  /\ capObs.exit \in {"none", "max", "while"}

\* C32: an attempt numbered 3 or higher that ends with the challenge
\* unresolved prints the escalation guidance whatever the operator chose,
\* and the loop goes where it would have gone without it.
C32_GuidanceAfterThree ==
  LateUnresolved =>
    /\ capObs.guidance
    /\ BackToDetection \/ (capPc = "returned" /\ capObs.exit = "max")

\* C33: a page reload that fails in the refresh or cookies action does not
\* leave handleCaptchaLoop; the loop goes on to the next detection pass.
C33_ReloadFailureTransient ==
  (capObs.menu /\ capObs.choice \in {"refresh", "cookies"}) =>
    /\ capPc # "thrown"
    /\ ~capObs.reloadThrew \/ BackToDetection

\* Short of a rejected reload, every such action does go back to detection.
MenuLoopsBackUnlessReloadFails ==
  MenuLeftChallenge /\ ~capObs.reloadThrew => BackToDetection

\* The guidance is printed exactly after a manual attempt, numbered 3 or
\* higher, that left the challenge in place.
GuidanceOnlyAfterManual ==
  capObs.guidance <=>
    /\ LateUnresolved
    /\ capObs.menu
    /\ capObs.choice \notin {"refresh", "wait", "cookies", "stealth", "human",
                             "checkbox", "skip"}
    /\ ~(capObs.choice = "auto" /\ capObs.auto)

(***************************************************************************)
(* The month cursor of the availability poller.                            *)
(***************************************************************************)
\* The last pass stopped at a month view that offers no way on, with
\* neither the next-month button nor the unavailable marker on it.
AffordanceMissing ==
  /\ pollObs.passRan
  /\ pollObs.pass.exit = "cannot navigate"
  /\ calendar[pollObs.pass.cursor].next = "none"

\* The last pass stopped at the labeled unavailable marker.
WindowExhausted ==
  /\ pollObs.passRan
  /\ pollObs.pass.exit = "cannot navigate"
  /\ calendar[pollObs.pass.cursor].next = "unavailable"

\* C34: a month view with the unavailable marker ends the pass as window
\* exhausted (no slot, next cycle), while a month view with no next-month
\* control at all is handed to the operator instead of ending the pass the
\* same way.
C34_MissingAffordanceEscalates ==
  /\ WindowExhausted =>
       pollObs.pass.result = Some(FALSE) /\ pollObs.waited = "next cycle"
  /\ AffordanceMissing =>
       pollObs.waited = "operator" /\ pollObs.pass.result # Some(FALSE)

\* The two cases end the pass alike.
ExhaustedAndMissingAlike ==
  AffordanceMissing \/ WindowExhausted =>
    /\ pollObs.pass.result = Some(FALSE)
    /\ pollObs.waited = "next cycle"
    /\ monPc = "running"

\* C35: after a pass that found no slot, resetToFirstMonth leaves the page
\* on the first month of the window, whichever of its steps (the month URL,
\* the reload, the direct navigation) is the one that succeeds, so the next
\* cycle starts its inspection there.
C35_ResetReachesFirstMonth ==
  /\ pollObs.waited = "next cycle" => calCursor = 1
  /\ pollObs.ran => pollObs.from = 1

\* The month URL and the direct navigation do reset the cursor.
ResetByNavigation ==
  pollObs.waited = "next cycle" /\ pollObs.reset \in {"goto", "direct"}
    => calCursor = 1

(***************************************************************************)
(* The proxy flag of a launched session.                                   *)
(***************************************************************************)
\* C36: the live session's sessionInfo.proxyUsed is true only if the browser
\* that runs was launched with the proxy-server argument; after the
\* no-proxy fallback it is false.
C36_ProxyUsedMatchesLaunch ==
  IsSome(session) =>
    (Val(session).sessionInfo.proxyUsed => Val(session).proxyArg)

\* Without the fallback the flag does tell how the browser was launched.
ProxyUsedWithoutFallback ==
  /\ IsSome(session)
  /\ bm.op \in {"launch", "restart", "watchdog"}
  /\ Len(bm.tries) = 1 /\ ~bm.threw
  => Val(session).sessionInfo.proxyUsed = Val(session).proxyArg

(***************************************************************************)
(* The rate-limit gate failing open.                                       *)
(***************************************************************************)
\* The run met no timestamp file, one it could not read, or one that does
\* not hold a date.
NoUsableTimestamp ==
  \/ ~IsSome(rlObs.found)
  \/ rlObs.readFailed
  \/ ~Val(rlObs.found).valid

\* C40: checkRateLimit allows the run whenever the timestamp file is
\* missing, unreadable or not a date, and a run it rejects leaves the
\* stored timestamp as it was.
C40_GateFailsOpen ==
  rlObs.ran =>
    /\ NoUsableTimestamp => rlObs.result.canRun
    /\ ~rlObs.result.canRun => rlFile = rlObs.found /\ rlObs.exit = "rate limit"

\* A run one millisecond into the cooldown of a stored timestamp that it
\* could not read is allowed.
C40_Witness ==
  /\ rlObs.ran
  /\ rlObs.readFailed
  /\ rlObs.found = Some(ToISOString(0))
  /\ rlObs.at = 1
  /\ rlObs.result.canRun

\* A run that met a file not holding a date is allowed, and one inside the
\* cooldown of a readable timestamp is rejected with the file untouched.
C40_WitnessRejected ==
  /\ rlObs.ran
  /\ ~rlObs.result.canRun
  /\ ~rlObs.readFailed
  /\ rlObs.found = Some(ToISOString(900000))
  /\ rlObs.at = 900001
  /\ rlFile = rlObs.found

(***************************************************************************)
(* Properties of the main loop: errors, restarts and the ways out.         *)
(***************************************************************************)
\* The main task is inside the restartBrowser that its catch calls.
RestartAfterError ==
  tasks["main"].op = "restart" /\ tasks["main"].cont = "wait"

\* The main task has left the loop for the finally block.
InFinally == tasks["main"].op = "cleanup"

\* C37: when the session has been replaced under a running scrapeTLSContact
\* (the browser of the page it works on is closed), the call ends with an
\* error and nothing else; the catch of the main loop counts the error on
\* the session the manager holds by then and calls restartBrowser itself.
\* From there the main task comes back to the loop only through a launch of
\* its own.
C37_ReplacedSessionRestartsTwice ==
  [][/\ (/\ tasks["main"].pc = "scrape"
         /\ BrowserClosed(chrome, tasks["main"].ref)
         /\ tasks'["main"] # tasks["main"])
        => /\ tasks'["main"] = RestartBegin(live.session, "wait")
           /\ run'.errors = ErrorsAfterCatch(run.errors, live.session)
     /\ (RestartAfterError /\ tasks'["main"] # tasks["main"])
        => \/ RestartAfterError'
           \/ /\ tasks["main"].pc = "page.setup"
              /\ tasks'["main"].pc = "wait"
              /\ live'.session = Some(LiveSession(tasks["main"].ref))
           \/ /\ tasks["main"].pc = "puppeteer.launch"
              /\ InFinally'
              /\ run'.left = "restart failed"]_vars

\* The first session's browser was closed by the watchdog's restart while
\* scrapeTLSContact ran on it; the error was counted on the browser the
\* watchdog launched, and the main task is now closing that browser.
C37_Witness ==
  /\ run.sessionCount = 1
  /\ BrowserClosed(chrome, 1)
  /\ run.errors[1] = 0
  /\ run.errors[2] = 1
  /\ RestartAfterError
  /\ tasks["main"].pc = "closeSession"
  /\ tasks["main"].ref = 2

\* The session the manager holds has an error counted on it.
HeldSessionHasErrors ==
  IsSome(live.session) /\ run.errors[Val(live.session).browser] > 0

\* C38: the summary the main loop prints shows 0 errors; a session with an
\* error counted on it is held by the manager only while the restartBrowser
\* of the catch saves and closes it.
C38_SummaryShowsNoErrors ==
  /\ IsSome(run.summary) => Val(run.summary) = 0
  /\ HeldSessionHasErrors =>
       RestartAfterError /\ tasks["main"].pc \in {"saveSessionData", "closeSession"}
  /\ \A id \in BrowserIds : run.errors[id] <= 1

\* A summary was printed in a run that had counted an error.
C38_Witness ==
  /\ IsSome(run.summary)
  /\ \E id \in BrowserIds : run.errors[id] = 1

\* The ways out of the main loop.
Exits == {"stop", "restart failed", "limit"}

\* The run is over: main has returned or the process has exited.
Ended == tasks["main"].pc = "finished" \/ ~Alive

MainLoopBounded ==
  /\ run.sessionCount <= MaxSessions
  /\ InFinally <=> run.left # "none"
  /\ run.left = "limit" => run.sessionCount = MaxSessions
  /\ run.left = "stop" => run.stop
  /\ run.left = "declined" => run.sessionCount = 0
  /\ run.left \in Exits \cup {"none", "declined"}

\* C39: the main loop starts at most maxSessions sessions; it is left only
\* on the operator's "stop", on a failed restart in the catch, or at the
\* session limit, each time into the finally block that calls cleanup; and
\* the run always comes to an end.
C39_MainLoopEnds ==
  []MainLoopBounded /\ <>Ended

\* The manager holds no session and runs no timer while scrapeTLSContact
\* works on a browser that is still open: nothing will close that browser.
ScrapingUnwatched ==
  /\ Alive
  /\ tasks["main"].pc = "scrape"
  /\ ~BrowserClosed(chrome, tasks["main"].ref)
  /\ ~IsSome(live.session)
  /\ ~live.watchdogInterval
  /\ tasks["watchdog"].pc = "idle"

\* The run comes to an end unless one scrapeTLSContact call goes on for
\* ever.
EndsUnlessScrapeGoesOn ==
  <>Ended \/ <>[](tasks["main"].pc = "scrape")

\* The run ended at the session limit.
EndedAtLimit ==
  /\ tasks["main"] = FinishedTask
  /\ run.left = "limit"
  /\ run.sessionCount = MaxSessions

\* The run ended on a failed restart in the catch.
EndedOnFailedRestart ==
  /\ tasks["main"] = FinishedTask
  /\ run.left = "restart failed"

\* The run ended on the operator's "stop".
EndedOnStop ==
  /\ tasks["main"] = FinishedTask
  /\ run.left = "stop"

====
